---- MODULE Spec2Model ----
(***************************************************************************)
(* tracing-stackdriver: the projection of a tracing event and its span     *)
(* context onto one line of Stackdriver LogEntry JSON.                     *)
(*                                                                         *)
(* A string is a tuple of one-character strings, so that the conversions   *)
(* of the code (camelCase, lowercase, decimal and hexadecimal display,      *)
(* prefix tests, BTreeMap key order) are computed character by character.  *)
(* A JSON value is a record [t, v]; a written line is a sequence of        *)
(* tokens: the opening brace, one token per top-level entry, the closing   *)
(* brace and the newline.                                                  *)
(***************************************************************************)
EXTENDS Integers, Sequences, FiniteSets, TLC

\* Bounds of the model.
MaxSpans == 2
MaxEvents == 2

VARIABLES
    formatter,  \* the event formatter of the layer and the build's features
    make_writer,\* the MakeWriter of the layer: "stdout" or "mock"
    spans,      \* the span registry: span id -> span data, or NoSpan
    stack,      \* the ids of the entered spans of the thread, innermost last
    last_event, \* the event of the last on_event call, NoEvent before one
    clock,      \* the last reading of the wall clock
    buf,        \* the buffer of the fmt layer as format_event left it
    result,     \* how the last format_event call ended
    sink        \* what the mock writer has received, one element per write

vars == <<formatter, make_writer, spans, stack, last_event, clock, buf, result, sink>>

(***************************************************************************)
(* Characters                                                              *)
(***************************************************************************)
Lowers == <<"a","b","c","d","e","f","g","h","i","j","k","l","m","n","o","p","q","r","s","t","u","v","w","x","y","z">>
Uppers == <<"A","B","C","D","E","F","G","H","I","J","K","L","M","N","O","P","Q","R","S","T","U","V","W","X","Y","Z">>
Digits == <<"0","1","2","3","4","5","6","7","8","9">>
HexDigits == <<"0","1","2","3","4","5","6","7","8","9","a","b","c","d","e","f">>

\* The characters of the model in the byte order Rust's str comparison uses.
Ascii == <<" ", "\"">> \o <<",","-",".","/">> \o Digits \o <<":">> \o Uppers \o <<"_">> \o Lowers \o <<"{","}">>

Range(s) == {s[i] : i \in DOMAIN s}
LowerSet == Range(Lowers)
UpperSet == Range(Uppers)
DigitSet == Range(Digits)

IndexOf(s, c) == CHOOSE i \in DOMAIN s : s[i] = c
Ord(c) == IndexOf(Ascii, c)

is_alphanumeric(c) == c \in LowerSet \cup UpperSet \cup DigitSet
is_numeric(c) == c \in DigitSet
is_lowercase(c) == c \in LowerSet
is_uppercase(c) == c \in UpperSet
to_ascii_lowercase(c) == IF c \in UpperSet THEN Lowers[IndexOf(Uppers, c)] ELSE c
to_ascii_uppercase(c) == IF c \in LowerSet THEN Uppers[IndexOf(Lowers, c)] ELSE c

to_lowercase(s) == [i \in DOMAIN s |-> to_ascii_lowercase(s[i])]

\* str::cmp: byte-wise lexicographic order, the key order of a BTreeMap.
RECURSIVE StrLess(_, _)
StrLess(a, b) ==
    IF b = <<>> THEN FALSE
    ELSE IF a = <<>> THEN TRUE
    ELSE IF a[1] = b[1] THEN StrLess(Tail(a), Tail(b))
    ELSE Ord(a[1]) < Ord(b[1])

starts_with(s, prefix) ==
    /\ Len(s) >= Len(prefix)
    /\ SubSeq(s, 1, Len(prefix)) = prefix

\* u32/u64/i64 to_string: the decimal display form.
RECURSIVE DecimalDigits(_)
DecimalDigits(n) ==
    IF n < 10 THEN <<Digits[n + 1]>>
    ELSE DecimalDigits(n \div 10) \o <<Digits[(n % 10) + 1]>>

to_string(n) == IF n < 0 THEN <<"-">> \o DecimalDigits(-n) ELSE DecimalDigits(n)

(***************************************************************************)
(* Inflector's to_camel_case, as the visitor applies it to field keys.     *)
(***************************************************************************)
RECURSIVE trim_right(_)
trim_right(s) ==
    IF s = <<>> \/ is_alphanumeric(s[Len(s)]) THEN s
    ELSE trim_right(SubSeq(s, 1, Len(s) - 1))

RECURSIVE CamelLoop(_, _, _, _, _)
CamelLoop(s, new_word, last_char, found_real_char, acc) ==
    IF s = <<>> THEN acc
    ELSE LET c == s[1]
             rest == Tail(s)
         IN  IF ~is_alphanumeric(c) /\ found_real_char
                 THEN CamelLoop(rest, TRUE, last_char, found_real_char, acc)
             ELSE IF ~found_real_char /\ ~is_alphanumeric(c)
                 THEN CamelLoop(rest, new_word, last_char, found_real_char, acc)
             ELSE IF is_numeric(c)
                 THEN CamelLoop(rest, TRUE, last_char, TRUE, Append(acc, c))
             ELSE IF new_word \/ (is_lowercase(last_char) /\ is_uppercase(c))
                 THEN CamelLoop(rest, FALSE, last_char, TRUE,
                                Append(acc, to_ascii_uppercase(c)))
             ELSE CamelLoop(rest, new_word, c, TRUE,
                            Append(acc, to_ascii_lowercase(c)))

to_camel_case(s) == CamelLoop(trim_right(s), FALSE, " ", FALSE, <<>>)

(***************************************************************************)
(* JSON values and BTreeMap<&str, Value>                                   *)
(***************************************************************************)
JsonString(s) == [t |-> "str", v |-> s]
JsonNumber(n) == [t |-> "num", v |-> n]
JsonBool(b) == [t |-> "bool", v |-> b]
\* An object is the sequence of its <<key, value>> entries as serialized.
JsonObject(entries) == [t |-> "obj", v |-> entries]
JsonArray(elements) == [t |-> "arr", v |-> elements]

Keys(m) == {m[i][1] : i \in DOMAIN m}

\* A map that keeps its entries in the order of their insertion.
insert_in_call_order(m, k, v) ==
    IF \E i \in DOMAIN m : m[i][1] = k
        THEN [i \in DOMAIN m |-> IF m[i][1] = k THEN <<k, v>> ELSE m[i]]
        ELSE Append(m, <<k, v>>)

\* BTreeMap::insert: the entries stay in key order, a present key is replaced.
RECURSIVE BTreeInsert(_, _, _)
BTreeInsert(m, k, v) ==
    IF m = <<>> THEN << <<k, v>> >>
    ELSE IF m[1][1] = k THEN << <<k, v>> >> \o Tail(m)
    ELSE IF StrLess(k, m[1][1]) THEN << <<k, v>> >> \o m
    ELSE <<m[1]>> \o BTreeInsert(Tail(m), k, v)

BTreeGet(m, k) == m[CHOOSE i \in DOMAIN m : m[i][1] = k][2]

\* BTreeMap::remove
BTreeRemove(m, k) == SelectSeq(m, LAMBDA e : e[1] # k)

\* serde_json::Value's Display: the compact JSON text of a scalar.
Value_to_string(value) ==
    CASE value.t = "num" -> to_string(value.v)
      [] value.t = "bool" -> (IF value.v THEN <<"t","r","u","e">> ELSE <<"f","a","l","s","e">>)
      [] value.t = "str" -> <<"\"">> \o value.v \o <<"\"">>

(***************************************************************************)
(* google.rs: LogSeverity                                                  *)
(***************************************************************************)
Levels == {"TRACE", "DEBUG", "INFO", "WARN", "ERROR"}

LogSeverity ==
    {"Default", "Debug", "Info", "Notice", "Warning", "Error", "Critical",
     "Alert", "Emergency"}

\* impl fmt::Display for LogSeverity
LogSeverity_fmt(severity) ==
    CASE severity = "Default" -> <<"D","E","F","A","U","L","T">>
      [] severity = "Debug" -> <<"D","E","B","U","G">>
      [] severity = "Info" -> <<"I","N","F","O">>
      [] severity = "Notice" -> <<"N","O","T","I","C","E">>
      [] severity = "Warning" -> <<"W","A","R","N","I","N","G">>
      [] severity = "Error" -> <<"E","R","R","O","R">>
      [] severity = "Critical" -> <<"C","R","I","T","I","C","A","L">>
      [] severity = "Alert" -> <<"A","L","E","R","T">>
      [] severity = "Emergency" -> <<"E","M","E","R","G","E","N","C","Y">>

\* The name of a variant as written in the enum.
LogSeverity_variant(severity) ==
    CASE severity = "Default" -> <<"D","e","f","a","u","l","t">>
      [] severity = "Debug" -> <<"D","e","b","u","g">>
      [] severity = "Info" -> <<"I","n","f","o">>
      [] severity = "Notice" -> <<"N","o","t","i","c","e">>
      [] severity = "Warning" -> <<"W","a","r","n","i","n","g">>
      [] severity = "Error" -> <<"E","r","r","o","r">>
      [] severity = "Critical" -> <<"C","r","i","t","i","c","a","l">>
      [] severity = "Alert" -> <<"A","l","e","r","t">>
      [] severity = "Emergency" -> <<"E","m","e","r","g","e","n","c","y">>

\* #[derive(Serialize)] #[serde(rename_all = "SCREAMING_SNAKE_CASE")]: a unit
\* variant is serialized as the string of its upper-cased name.
LogSeverity_serialize(severity) ==
    JsonString([i \in DOMAIN LogSeverity_variant(severity) |->
                   to_ascii_uppercase(LogSeverity_variant(severity)[i])])

\* A level mapping that takes WARN for ERROR; the property of the level
\* mapping tells it from the mapping of the code.
LogSeverity_from_level_warn_as_error(level) ==
    CASE level \in {"DEBUG", "TRACE"} -> "Debug"
      [] level = "INFO" -> "Info"
      [] level \in {"WARN", "ERROR"} -> "Error"

\* impl From<&Level> for LogSeverity
LogSeverity_from_level(level) ==
    CASE level \in {"DEBUG", "TRACE"} -> "Debug"
      [] level = "INFO" -> "Info"
      [] level = "WARN" -> "Warning"
      [] level = "ERROR" -> "Error"

\* A parse that compares the text as it is written.
LogSeverity_from_str_case_sensitive(string) ==
    CASE string \in {<<"d","e","b","u","g">>, <<"t","r","a","c","e">>} -> "Debug"
      [] string = <<"i","n","f","o">> -> "Info"
      [] string = <<"n","o","t","i","c","e">> -> "Notice"
      [] string \in {<<"w","a","r","n">>, <<"w","a","r","n","i","n","g">>} -> "Warning"
      [] string = <<"e","r","r","o","r">> -> "Error"
      [] string = <<"c","r","i","t","i","c","a","l">> -> "Critical"
      [] string = <<"a","l","e","r","t">> -> "Alert"
      [] string = <<"e","m","e","r","g","e","n","c","y">> -> "Emergency"
      [] OTHER -> "Default"

\* impl FromStr for LogSeverity
LogSeverity_from_str(string) ==
    LET lower == to_lowercase(string)
    IN  CASE lower \in {<<"d","e","b","u","g">>, <<"t","r","a","c","e">>} -> "Debug"
          [] lower = <<"i","n","f","o">> -> "Info"
          [] lower = <<"n","o","t","i","c","e">> -> "Notice"
          [] lower \in {<<"w","a","r","n">>, <<"w","a","r","n","i","n","g">>} -> "Warning"
          [] lower = <<"e","r","r","o","r">> -> "Error"
          [] lower = <<"c","r","i","t","i","c","a","l">> -> "Critical"
          [] lower = <<"a","l","e","r","t">> -> "Alert"
          [] lower = <<"e","m","e","r","g","e","n","c","y">> -> "Emergency"
          [] OTHER -> "Default"

\* impl From<serde_json::Value> for LogSeverity; the object branch is compiled
\* under cfg(all(tracing_unstable, feature = "valuable")) only.
LogSeverity_from_value(json, valuable) ==
    IF json.t = "str" THEN LogSeverity_from_str(json.v)
    ELSE IF valuable /\ json.t = "obj" /\ json.v # <<>>
        THEN LogSeverity_from_str(json.v[1][1])
    ELSE "Default"

(***************************************************************************)
(* visitor.rs: the visitor of an event's fields                            *)
(***************************************************************************)
\* A field value as the call site hands it to the visitor: ty names the
\* Visit method tracing calls for it.
I64(n) == [ty |-> "i64", arg |-> n]
U64(n) == [ty |-> "u64", arg |-> n]
Bool(b) == [ty |-> "bool", arg |-> b]
Str(s) == [ty |-> "str", arg |-> s]
\* %value: a DisplayValue, recorded through record_debug
Display(s) == [ty |-> "display", arg |-> s]
\* ?value of a &str: its Debug form is quoted
DebugStr(s) == [ty |-> "debug_str", arg |-> s]
\* %LogSeverity::X
DisplaySeverity(severity) == [ty |-> "display_severity", arg |-> severity]
\* value.as_value(): recorded through record_value as the given JSON value
Valuable(json) == [ty |-> "valuable", arg |-> json]

\* format!("{:?}", value) in record_debug
format_debug(value) ==
    CASE value.ty = "display" -> value.arg
      [] value.ty = "debug_str" -> <<"\"">> \o value.arg \o <<"\"">>
      [] value.ty = "display_severity" -> LogSeverity_fmt(value.arg)

\* A record_i64 that keeps the last two decimal digits of the value only.
record_i64_truncated(values, field, value) ==
    BTreeInsert(values, field, JsonNumber(value % 100))

record_i64(values, field, value) == BTreeInsert(values, field, JsonNumber(value))
record_u64(values, field, value) == BTreeInsert(values, field, JsonNumber(value))
\* A record_bool that stores a boolean as the number 0 or 1.
record_bool_as_number(values, field, value) ==
    BTreeInsert(values, field, JsonNumber(IF value THEN 1 ELSE 0))

record_bool(values, field, value) == BTreeInsert(values, field, JsonBool(value))
record_str(values, field, value) == BTreeInsert(values, field, JsonString(value))
record_debug(values, field, value) ==
    BTreeInsert(values, field, JsonString(format_debug(value)))
record_value(values, field, value) == BTreeInsert(values, field, value)

\* Event::record: one Visit call per field, in call-site order.
RECURSIVE Event_record(_, _)
Event_record(values, fields) ==
    IF fields = <<>> THEN values
    ELSE LET field == fields[1][1]
             value == fields[1][2]
             next ==
                 CASE value.ty = "i64" -> record_i64(values, field, value.arg)
                   [] value.ty = "u64" -> record_u64(values, field, value.arg)
                   [] value.ty = "bool" -> record_bool(values, field, value.arg)
                   [] value.ty = "str" -> record_str(values, field, value.arg)
                   [] value.ty = "valuable" -> record_value(values, field, value.arg)
                   [] OTHER -> record_debug(values, field, value)
         IN  Event_record(next, Tail(fields))

\* key.starts_with("http_request.")
is_http_request_key(key) == starts_with(key, <<"h","t","t","p","_","r","e","q","u","e","s","t",".">>)

\* key.splitn(2, '.').last(): what follows the first '.', the whole key without one
splitn_2_last(key) ==
    IF "." \notin Range(key) THEN key
    ELSE LET dot == CHOOSE i \in DOMAIN key :
                        key[i] = "." /\ \A j \in 1..(i - 1) : key[j] # "."
         IN  SubSeq(key, dot + 1, Len(key))

\* A loop of finish that nests a key without converting it to camelCase.
RECURSIVE http_request_map_verbatim(_, _)
http_request_map_verbatim(values, http_request) ==
    IF values = <<>> THEN http_request
    ELSE http_request_map_verbatim(
             Tail(values),
             IF is_http_request_key(values[1][1])
                 THEN BTreeInsert(http_request, splitn_2_last(values[1][1]),
                                  values[1][2])
                 ELSE http_request)

\* The loop of finish over self.values: the http_request map it fills.
RECURSIVE http_request_map(_, _)
http_request_map(values, http_request) ==
    IF values = <<>> THEN http_request
    ELSE LET key == values[1][1]
             value == values[1][2]
         IN  http_request_map(
                 Tail(values),
                 IF is_http_request_key(key)
                     THEN BTreeInsert(http_request,
                                      to_camel_case(splitn_2_last(key)), value)
                     ELSE http_request)

\* serializer.serialize_entry(&key.to_camel_case(), &value)
top_level_entry(key, value) == <<to_camel_case(key), value>>

\* serializer.serialize_entry("httpRequest", &http_request), unless it is empty
http_request_entry(http_request) ==
    IF http_request # <<>>
        THEN << <<<<"h","t","t","p","R","e","q","u","e","s","t">>, JsonObject(http_request)>> >>
        ELSE <<>>

http_request_entries(values) == http_request_entry(http_request_map(values, <<>>))

(***************************************************************************)
(* Visitor::new(severity, map), the visitor format_event constructs: the   *)
(* severity override, the labels bucket and the insert id are those of     *)
(* sections 4.1 and 4.2 of the specification.                              *)
(***************************************************************************)
\* The severity of the line: the parsed `severity` field when the event has
\* one, the level-derived severity otherwise.
Visitor_severity(severity, values, valuable) ==
    IF <<"s","e","v","e","r","i","t","y">> \in Keys(values)
        THEN LogSeverity_from_value(BTreeGet(values, <<"s","e","v","e","r","i","t","y">>), valuable)
        ELSE severity

is_labels_key(key) == starts_with(key, <<"l","a","b","e","l","s",".">>)
is_insert_id_key(key) == key = <<"i","n","s","e","r","t","_","i","d">>

\* A label or an insert id is stored as a string: a string as it is, another
\* value in its display form.
stringify(value) ==
    IF value.t = "str" THEN JsonString(value.v)
    ELSE JsonString(Value_to_string(value))

RECURSIVE labels_map(_, _)
labels_map(values, labels) ==
    IF values = <<>> THEN labels
    ELSE LET key == values[1][1]
             value == values[1][2]
         IN  labels_map(
                 Tail(values),
                 IF is_labels_key(key)
                     THEN BTreeInsert(labels, splitn_2_last(key), stringify(value))
                     ELSE labels)

labels_entry(labels) ==
    IF labels # <<>>
        THEN << <<<<"l","o","g","g","i","n","g",".","g","o","o","g","l","e","a","p","i","s",".","c","o","m","/","l","a","b","e","l","s">>, JsonObject(labels)>> >>
        ELSE <<>>

labels_entries(values) == labels_entry(labels_map(values, <<>>))

\* One entry per field that is neither nested nor the severity, in map order.
RECURSIVE top_level_entries(_)
top_level_entries(values) ==
    IF values = <<>> THEN <<>>
    ELSE LET key == values[1][1]
             value == values[1][2]
             entry ==
                 IF is_http_request_key(key) \/ is_labels_key(key) THEN <<>>
                 ELSE IF is_insert_id_key(key)
                     THEN << <<<<"l","o","g","g","i","n","g",".","g","o","o","g","l","e","a","p","i","s",".","c","o","m","/","i","n","s","e","r","t","I","d">>, stringify(value)>> >>
                 ELSE <<top_level_entry(key, value)>>
         IN  entry \o top_level_entries(Tail(values))

\* VisitOutput::finish: the entries the visitor writes before it ends the map.
Visitor_finish(severity, values, valuable) ==
    LET fields == BTreeRemove(values, <<"s","e","v","e","r","i","t","y">>)
    IN  << <<<<"s","e","v","e","r","i","t","y">>,
             LogSeverity_serialize(Visitor_severity(severity, values, valuable))>> >>
        \o top_level_entries(fields)
        \o http_request_entries(fields)
        \o labels_entries(fields)

(***************************************************************************)
(* The span registry as the formatter reads it                             *)
(***************************************************************************)
None == [some |-> FALSE]
Some(x) == [some |-> TRUE, v |-> x]

SpanIds == 1..MaxSpans
NoSpan == [exists |-> FALSE]

\* The JSON text of a scalar, as JsonFields writes a recorded span field.
render_value(value) == Value_to_string(value)

RECURSIVE render_members(_)
render_members(values) ==
    IF values = <<>> THEN <<>>
    ELSE <<"\"">> \o values[1][1] \o <<"\"", ":">> \o render_value(values[1][2])
         \o (IF Len(values) > 1 THEN <<",">> ELSE <<>>)
         \o render_members(Tail(values))

\* FormattedFields<JsonFields> of a new span: the recorded values as the text
\* of one JSON object, in key order.
render_fields(attrs) == <<"{">> \o render_members(Event_record(<<>>, attrs)) \o <<"}">>

\* OtelData, the extension tracing_opentelemetry attaches to a span.
OtelData(span_id, trace_id, parent_cx) ==
    [present |-> TRUE, builder |-> [span_id |-> span_id, trace_id |-> trace_id],
     parent_cx |-> parent_cx]
NoOtelData == [present |-> FALSE]
\* A Context without an active span, and one with the span of a remote parent.
EmptyContext == [has_active_span |-> FALSE]
RemoteContext(trace_id, span_id, sampled) ==
    [has_active_span |-> TRUE, trace_id |-> trace_id, span_id |-> span_id,
     is_sampled |-> sampled]

\* SpanId's and TraceId's Display: lower-case hex, zero-padded to the width.
RECURSIVE to_hex(_, _)
to_hex(n, width) ==
    IF width = 0 THEN <<>>
    ELSE to_hex(n \div 16, width - 1) \o <<HexDigits[(n % 16) + 1]>>

SpanId_to_string(span_id) == to_hex(span_id, 16)
TraceId_to_string(trace_id) == to_hex(trace_id, 32)

\* A lookup of the current span that takes the first span of the registry
\* for it, entered or not.
lookup_current_first(registry, entered) ==
    IF registry[1].exists THEN 1 ELSE 0

\* context.lookup_current(): the innermost entered span
lookup_current(registry, entered) ==
    IF entered # <<>> /\ registry[entered[Len(entered)]].exists
        THEN entered[Len(entered)]
        ELSE 0

\* context.span(id)
lookup_span(registry, id) ==
    IF id \in DOMAIN registry /\ registry[id].exists THEN id ELSE 0

\* A resolution that takes the entered span before the explicit parent.
current_span_entered_first(registry, entered, event) ==
    IF lookup_current(registry, entered) # 0 THEN lookup_current(registry, entered)
    ELSE IF event.parent # 0 THEN lookup_span(registry, event.parent)
    ELSE 0

\* event.parent().and_then(|id| context.span(id)).or_else(|| context.lookup_current())
current_span(registry, entered, event) ==
    IF event.parent # 0 /\ lookup_span(registry, event.parent) # 0
        THEN event.parent
        ELSE lookup_current(registry, entered)

\* span.scope().from_root(): the path from the root to the span
RECURSIVE from_root(_, _)
from_root(registry, id) ==
    IF id = 0 \/ ~registry[id].exists THEN <<>>
    ELSE from_root(registry, registry[id].parent) \o <<id>>

(***************************************************************************)
(* serde_json::from_str::<Value> on the text of a span's fields            *)
(***************************************************************************)
ParseError == [ok |-> FALSE]
Parsed(value, rest) == [ok |-> TRUE, value |-> value, rest |-> rest]

\* The characters of a string up to its closing quote.
RECURSIVE parse_chars(_, _)
parse_chars(s, acc) ==
    IF s = <<>> THEN ParseError
    ELSE IF s[1] = "\"" THEN Parsed(acc, Tail(s))
    ELSE parse_chars(Tail(s), Append(acc, s[1]))

RECURSIVE parse_digits(_, _)
parse_digits(s, n) ==
    IF s # <<>> /\ s[1] \in DigitSet
        THEN parse_digits(Tail(s), 10 * n + (IndexOf(Digits, s[1]) - 1))
        ELSE Parsed(JsonNumber(n), s)

RECURSIVE parse_value(_)
RECURSIVE parse_members(_, _)
parse_value(s) ==
    IF s = <<>> THEN ParseError
    ELSE IF s[1] = "\""
        THEN LET r == parse_chars(Tail(s), <<>>)
             IN  IF r.ok THEN Parsed(JsonString(r.value), r.rest) ELSE ParseError
    ELSE IF s[1] \in DigitSet THEN parse_digits(s, 0)
    ELSE IF starts_with(s, <<"t","r","u","e">>) THEN Parsed(JsonBool(TRUE), SubSeq(s, 5, Len(s)))
    ELSE IF starts_with(s, <<"f","a","l","s","e">>) THEN Parsed(JsonBool(FALSE), SubSeq(s, 6, Len(s)))
    ELSE IF s[1] = "{"
        THEN IF Len(s) >= 2 /\ s[2] = "}"
                 THEN Parsed(JsonObject(<<>>), SubSeq(s, 3, Len(s)))
                 ELSE parse_members(Tail(s), <<>>)
    ELSE ParseError

\* The members of an object after its brace or a comma; the map is a BTreeMap.
parse_members(s, map) ==
    IF s = <<>> \/ s[1] # "\"" THEN ParseError
    ELSE LET key == parse_chars(Tail(s), <<>>)
         IN  IF ~key.ok \/ key.rest = <<>> \/ key.rest[1] # ":" THEN ParseError
             ELSE LET value == parse_value(Tail(key.rest))
                  IN  IF ~value.ok \/ value.rest = <<>> THEN ParseError
                      ELSE LET next == BTreeInsert(map, key.value, value.value)
                           IN  IF value.rest[1] = "}"
                                   THEN Parsed(JsonObject(next), Tail(value.rest))
                               ELSE IF value.rest[1] = ","
                                   THEN parse_members(Tail(value.rest), next)
                               ELSE ParseError

\* A parse that takes the first value of the text and ignores what follows.
end_ignoring_rest(r) == r

\* Deserializer::end: nothing may follow the value.
end(r) == IF r.ok /\ r.rest = <<>> THEN r ELSE ParseError

from_str(text) == end(parse_value(text))

(***************************************************************************)
(* serializers.rs                                                          *)
(***************************************************************************)
Ok(value) == [status |-> "ok", value |-> value]
Panic == [status |-> "panic"]

\* A serialization of a span that leaves its name out.
serialize_fields_only(parsed, name) ==
    IF parsed.ok /\ parsed.value.t = "obj" THEN Ok(JsonObject(parsed.value.v))
    ELSE Panic

\* The map a span serializes into: the members of its parsed fields, then
\* its name; a buffer that is not the text of an object panics.
serialize_fields_and_name(parsed, name) ==
    IF parsed.ok /\ parsed.value.t = "obj"
        THEN Ok(JsonObject(parsed.value.v \o << <<<<"n","a","m","e">>, JsonString(name)>> >>))
        ELSE Panic

\* impl Serialize for SerializableSpan: the parsed fields of the span, then
\* its name; a missing, unparseable or non-object buffer panics.
SerializableSpan_serialize(span) ==
    IF ~span.formatted.present THEN Panic
    ELSE serialize_fields_and_name(from_str(span.formatted.text), span.name)

\* serializer.collect_seq(..): the serialized spans as one array
collect_seq(each) ==
    IF \E i \in DOMAIN each : each[i].status = "panic" THEN Panic
    ELSE Ok(JsonArray([i \in DOMAIN each |-> each[i].value]))

\* The spans of a scope, each serialized on its own.
serialize_scope(registry, scope) ==
    [i \in DOMAIN scope |-> SerializableSpan_serialize(registry[scope[i]])]

\* impl Serialize for SerializableContext: the spans from the root to the
\* entered span.
SerializableContext_serialize(registry, entered) ==
    collect_seq(serialize_scope(registry,
                                from_root(registry, lookup_current(registry, entered))))

\* A source location with the line as a JSON number.
SourceLocation_serialize_numeric(file, line) ==
    JsonObject(<< <<<<"f","i","l","e">>, JsonString(file)>> >>
               \o (IF line.some THEN << <<<<"l","i","n","e">>, JsonNumber(line.v)>> >> ELSE <<>>))

\* impl Serialize for SourceLocation
SourceLocation_serialize(file, line) ==
    JsonObject(<< <<<<"f","i","l","e">>, JsonString(file)>> >>
               \o (IF line.some
                       THEN << <<<<"l","i","n","e">>, JsonString(to_string(line.v))>> >>
                       ELSE <<>>))

(***************************************************************************)
(* event_formatter.rs and layer.rs: the assembly of a line                 *)
(***************************************************************************)
\* What the serializer has written into the buffer, one token per step.
Begin == [tok |-> "{"]
End == [tok |-> "}"]
Newline == [tok |-> "\n"]
Entry(k, v) == [tok |-> "entry", k |-> k, v |-> v]
\* The key of an entry whose value panicked before it was complete.
Partial(k) == [tok |-> "partial", k |-> k]

Entries(pairs) == [i \in DOMAIN pairs |-> Entry(pairs[i][1], pairs[i][2])]

\* How a call of format_event ends and what it leaves in the buffer.
Done(out) == [status |-> "ok", out |-> out]
Panicked(out) == [status |-> "panic", out |-> out]

Pad2(n) == IF n < 10 THEN <<"0">> \o to_string(n) ELSE to_string(n)

\* A time format that leaves the seconds of the reading out.
format_Rfc3339_whole_minutes(now) ==
    <<"1","9","7","0","-","0","1","-","0","1","T","0","0",":">> \o Pad2(now \div 60) \o <<":","0","0","Z">>

\* OffsetDateTime::now_utc().format(&Rfc3339) for a clock reading of `now`
\* whole seconds after the epoch, within its first hour.
format_Rfc3339(now) ==
    <<"1","9","7","0","-","0","1","-","0","1","T","0","0",":">> \o Pad2(now \div 60) \o <<":">> \o Pad2(now % 60) \o <<"Z">>

\* value.split(":")
RECURSIVE split(_, _)
split(s, segment) ==
    IF s = <<>> THEN <<segment>>
    ELSE IF s[1] = ":" THEN <<segment>> \o split(Tail(s), <<>>)
    ELSE split(Tail(s), Append(segment, s[1]))

\* impl Visit for TraceIdVisitor, record_str: what follows the first ':' of
\* the text without its first and its last two characters, the whole text
\* without a ':'; the slice panics on a segment shorter than three.
TraceIdVisitor_record_str(value) ==
    LET segments == split(value, <<>>)
    IN  IF Len(segments) < 2 THEN Ok(value)
        ELSE LET quoted == segments[2]
             IN  IF Len(quoted) < 3 THEN Panic
                 ELSE Ok(SubSeq(quoted, 2, Len(quoted) - 2))

\* context.visit_spans(..) in format_event: each span of the scope that
\* declares a field trace_id hands the text of its fields to the visitor.
RECURSIVE visit_spans(_, _, _)
visit_spans(registry, scope, trace_id) ==
    IF scope = <<>> THEN Ok(trace_id)
    ELSE LET span == registry[scope[1]]
         IN  IF <<"t","r","a","c","e","_","i","d">> \in Range(span.fields) /\ span.formatted.present
                 THEN LET recorded == TraceIdVisitor_record_str(span.formatted.text)
                      IN  IF recorded.status = "panic" THEN Panic
                          ELSE visit_spans(registry, Tail(scope), Some(recorded.value))
                 ELSE visit_spans(registry, Tail(scope), trace_id)

\* A trace name with the trace id in decimal digits.
trace_name_decimal(project_id, trace_id) ==
    <<"p","r","o","j","e","c","t","s","/">> \o project_id \o <<"/","t","r","a","c","e","s","/">> \o to_string(trace_id)

\* format!("projects/{project_id}/traces/{trace_id}")
trace_name(project_id, trace_id) ==
    <<"p","r","o","j","e","c","t","s","/">> \o project_id \o <<"/","t","r","a","c","e","s","/">> \o TraceId_to_string(trace_id)

\* A selection that prefers the trace id recorded in the builder.
otel_trace_builder_first(otel_data) ==
    IF otel_data.parent_cx.has_active_span /\ ~otel_data.builder.trace_id.some
        THEN [trace_id |-> Some(otel_data.parent_cx.trace_id),
              trace_sampled |-> otel_data.parent_cx.is_sampled]
        ELSE [trace_id |-> otel_data.builder.trace_id, trace_sampled |-> FALSE]

\* A selection whose sampled flag is set whatever the parent context says,
\* in the fallback case as well.
otel_trace_sampled_always(otel_data) ==
    [trace_id |-> IF otel_data.parent_cx.has_active_span
                      THEN Some(otel_data.parent_cx.trace_id)
                      ELSE otel_data.builder.trace_id,
     trace_sampled |-> TRUE]

\* (trace_id, trace_sampled) of the OtelData of the span
otel_trace(otel_data) ==
    IF otel_data.parent_cx.has_active_span
        THEN [trace_id |-> Some(otel_data.parent_cx.trace_id),
              trace_sampled |-> otel_data.parent_cx.is_sampled]
        ELSE [trace_id |-> otel_data.builder.trace_id, trace_sampled |-> FALSE]

\* A block that writes the span id of the parent context for the span's own.
otel_entries_propagated(otel_data, project_id) ==
    LET trace == otel_trace(otel_data)
    IN  (IF otel_data.builder.span_id.some
             THEN << <<<<"l","o","g","g","i","n","g",".","g","o","o","g","l","e","a","p","i","s",".","c","o","m","/","s","p","a","n","I","d">>,
                       JsonString(SpanId_to_string(otel_data.parent_cx.span_id))>> >>
             ELSE <<>>)
        \o (IF trace.trace_id.some /\ project_id.some
                THEN << <<<<"l","o","g","g","i","n","g",".","g","o","o","g","l","e","a","p","i","s",".","c","o","m","/","t","r","a","c","e">>,
                          JsonString(trace_name(project_id.v, trace.trace_id.v))>> >>
                ELSE <<>>)
        \o (IF trace.trace_sampled
                THEN << <<<<"l","o","g","g","i","n","g",".","g","o","o","g","l","e","a","p","i","s",".","c","o","m","/","t","r","a","c","e","_","s","a","m","p","l","e","d">>, JsonBool(TRUE)>> >>
                ELSE <<>>)

\* The entries of the cfg(feature = "opentelemetry") block for the span.
otel_entries(otel_data, project_id) ==
    LET trace == otel_trace(otel_data)
    IN  (IF otel_data.builder.span_id.some
             THEN << <<<<"l","o","g","g","i","n","g",".","g","o","o","g","l","e","a","p","i","s",".","c","o","m","/","s","p","a","n","I","d">>,
                       JsonString(SpanId_to_string(otel_data.builder.span_id.v))>> >>
             ELSE <<>>)
        \o (IF trace.trace_id.some /\ project_id.some
                THEN << <<<<"l","o","g","g","i","n","g",".","g","o","o","g","l","e","a","p","i","s",".","c","o","m","/","t","r","a","c","e">>,
                          JsonString(trace_name(project_id.v, trace.trace_id.v))>> >>
                ELSE <<>>)
        \o (IF trace.trace_sampled
                THEN << <<<<"l","o","g","g","i","n","g",".","g","o","o","g","l","e","a","p","i","s",".","c","o","m","/","t","r","a","c","e","_","s","a","m","p","l","e","d">>, JsonBool(TRUE)>> >>
                ELSE <<>>)

\* The visitor part of format_event: record the event, then finish.
visitor_entries(self, event) ==
    Entries(Visitor_finish(LogSeverity_from_level(event.level),
                           Event_record(<<>>, event.fields), self.valuable))

\* The two custom entries with the target first.
custom_entries_target_first(event, now) ==
    <<Entry(<<"t","a","r","g","e","t">>, JsonString(event.target)),
      Entry(<<"t","i","m","e">>, JsonString(format_Rfc3339(now)))>>

\* The entries "time" and "target"
custom_entries(event, now) ==
    <<Entry(<<"t","i","m","e">>, JsonString(format_Rfc3339(now))),
      Entry(<<"t","a","r","g","e","t">>, JsonString(event.target))>>

\* The source location entry of EventFormatter
source_location_entries(self, event) ==
    IF self.include_source_location /\ event.file.some
        THEN <<Entry(<<"l","o","g","g","i","n","g",".","g","o","o","g","l","e","a","p","i","s",".","c","o","m","/","s","o","u","r","c","e","L","o","c","a","t","i","o","n">>,
                     SourceLocation_serialize(event.file.v, event.line))>>
        ELSE <<>>

\* map.serialize_entry("span", &SerializableSpan::new(span)): the entry after
\* the entries written so far, or the panic of the span's serialization.
serialize_span_entry(head, serialized) ==
    IF serialized.status = "panic" THEN Panicked(Append(head, Partial(<<"s","p","a","n">>)))
    ELSE Done(Append(head, Entry(<<"s","p","a","n">>, serialized.value)))

\* map.serialize_entry("spans", &SerializableContext::new(context))
serialize_spans_entry(map, context) ==
    IF map.status = "panic" THEN map
    ELSE IF context.status = "panic" THEN Panicked(Append(map.out, Partial(<<"s","p","a","n","s">>)))
    ELSE Done(Append(map.out, Entry(<<"s","p","a","n","s">>, context.value)))

\* The traceId entry of EventFormatter: the visit of the spans of the scope,
\* then the entry when a span gave a trace id.
serialize_trace_id_entry(map, trace_id) ==
    IF map.status = "panic" THEN map
    ELSE IF trace_id.status = "panic" THEN Panicked(map.out)
    ELSE IF trace_id.value.some
        THEN Done(Append(map.out, Entry(<<"t","r","a","c","e","I","d">>, JsonString(trace_id.value.v))))
    ELSE map

\* The cfg(feature = "opentelemetry") block: the entries of the OtelData of
\* the span when the block runs for it.
serialize_otel_entries(map, runs, otel_data, project_id) ==
    IF map.status = "panic" \/ ~runs \/ ~otel_data.present THEN map
    ELSE Done(map.out \o Entries(otel_entries(otel_data, project_id)))

\* The visitor's entries and serializer.end(), the last steps of format_event.
visit_and_end(map, entries) ==
    IF map.status = "panic" THEN map
    ELSE Done(map.out \o entries \o <<End>>)

\* The part of EventFormatter::format_event that is about the span.
EventFormatter_span_entries(self, registry, span, head) ==
    IF span = 0 THEN Done(head)
    ELSE serialize_otel_entries(
             serialize_trace_id_entry(
                 serialize_span_entry(head, SerializableSpan_serialize(registry[span])),
                 visit_spans(registry, from_root(registry, span), None)),
             self.opentelemetry /\ self.project_id.some,
             registry[span].otel, self.project_id)

\* EventFormatter::format_event (event_formatter.rs)
EventFormatter_format_event(self, registry, entered, event, now) ==
    visit_and_end(
        EventFormatter_span_entries(
            self, registry, current_span(registry, entered, event),
            <<Begin>> \o custom_entries(event, now)
                \o source_location_entries(self, event)),
        visitor_entries(self, event))

\* The part of StackdriverEventFormatter::format_event that is about the span.
StackdriverEventFormatter_span_entries(self, registry, entered, span, head) ==
    IF span = 0 THEN Done(head)
    ELSE serialize_otel_entries(
             serialize_spans_entry(
                 serialize_span_entry(head, SerializableSpan_serialize(registry[span])),
                 SerializableContext_serialize(registry, entered)),
             self.opentelemetry, registry[span].otel, self.project_id)

\* StackdriverEventFormatter::format_event (layer.rs)
StackdriverEventFormatter_format_event(self, registry, entered, event, now) ==
    visit_and_end(
        StackdriverEventFormatter_span_entries(
            self, registry, entered, current_span(registry, entered, event),
            <<Begin>> \o custom_entries(event, now)),
        visitor_entries(self, event))

\* writeln!(writer) after a format_event that returned Ok
writeln(inner) ==
    IF inner.status = "ok" THEN Done(Append(inner.out, Newline)) ELSE inner

\* A wrapper of format_event that leaves writeln!(writer) out.
FormatEvent_format_event_unterminated(self, registry, entered, event, now) ==
    IF self.kind = "EventFormatter"
        THEN EventFormatter_format_event(self, registry, entered, event, now)
        ELSE StackdriverEventFormatter_format_event(self, registry, entered, event, now)

\* impl FormatEvent: the serializer over the writer, the inner format_event,
\* then writeln!(writer).
FormatEvent_format_event(self, registry, entered, event, now) ==
    writeln(IF self.kind = "EventFormatter"
                THEN EventFormatter_format_event(self, registry, entered, event, now)
                ELSE StackdriverEventFormatter_format_event(self, registry, entered,
                                                            event, now))

(***************************************************************************)
(* The layer: construction, the span handlers and on_event                 *)
(***************************************************************************)
PROJECT_ID == <<"m","y","_","p","r","o","j","e","c","t","_","1","2","3">>

\* The formatter of the layer with the features of the build.
Formatter(kind, include_source_location, project_id, opentelemetry, valuable) ==
    [kind |-> kind, include_source_location |-> include_source_location,
     project_id |-> project_id, opentelemetry |-> opentelemetry,
     valuable |-> valuable]

\* impl Default for EventFormatter
EventFormatter_default(opentelemetry, valuable) ==
    Formatter("EventFormatter", TRUE, None, opentelemetry, valuable)

\* layer().with_source_location(..), as tests/source_location.rs calls it
with_source_location(self, include_source_location) ==
    [self EXCEPT !.include_source_location = include_source_location]

\* layer().with_cloud_trace(..), as tests/opentelemetry.rs calls it; the
\* configuration exists under the feature only.
with_cloud_trace(self, project_id) ==
    IF self.opentelemetry THEN [self EXCEPT !.project_id = Some(project_id)] ELSE self

\* #[derive(Default)] StackdriverEventFormatter
StackdriverEventFormatter_default(opentelemetry, valuable) ==
    Formatter("StackdriverEventFormatter", FALSE, None, opentelemetry, valuable)

\* StackdriverLayer::with_project_id
with_project_id(self, project_id) == [self EXCEPT !.project_id = Some(project_id)]

\* The layers a program can build for a build with the given features.
Layers(opentelemetry, valuable) ==
    LET event_formatter == EventFormatter_default(opentelemetry, valuable)
        stackdriver == StackdriverEventFormatter_default(opentelemetry, valuable)
    IN  {event_formatter, with_cloud_trace(event_formatter, PROJECT_ID),
         stackdriver, with_project_id(stackdriver, PROJECT_ID)}

NoEvent == [level |-> "none"]

\* The spans of the instrumented program: name, recorded fields, OtelData.
SpanInputs ==
    <<[name |-> <<"s","t","a","c","k","d","r","i","v","e","r","_","s","p","a","n">>, attrs |-> << <<<<"f","o","o">>, Str(<<"b","a","r">>)>> >>,
       otel |-> NoOtelData],
      [name |-> <<"r","o","o","t">>, attrs |-> <<>>,
       otel |-> OtelData(Some(1), None, RemoteContext(10, 3, TRUE))],
      [name |-> <<"i","n","n","e","r">>, attrs |-> << <<<<"t","r","a","c","e","_","i","d">>, Display(<<"a","b">>)>> >>,
       otel |-> OtelData(Some(2), Some(11), EmptyContext)],
      [name |-> <<"l","e","a","f">>, attrs |-> << <<<<"n">>, U64(7)>> >>,
       otel |-> OtelData(None, None, EmptyContext)]>>

FieldNames(attrs) == [i \in DOMAIN attrs |-> attrs[i][1]]

\* The data of a new span in the registry.
new_span(input, parent) ==
    [exists |-> TRUE, name |-> input.name, parent |-> parent,
     attrs |-> input.attrs, fields |-> FieldNames(input.attrs),
     formatted |-> [present |-> TRUE, text |-> render_fields(input.attrs)],
     otel |-> input.otel]

\* on_new_span: the registry stores the span under the next id with the
\* entered span as its parent, the inner layer formats its fields.
on_new_span(input) ==
    /\ result = "none"
    /\ \E id \in SpanIds : ~spans[id].exists
    /\ LET id == CHOOSE i \in SpanIds :
                     ~spans[i].exists /\ \A j \in 1..(i - 1) : spans[j].exists
       IN  spans' = [spans EXCEPT ![id] =
                        new_span(input, lookup_current(spans, stack))]
    /\ UNCHANGED <<formatter, make_writer, stack, last_event, clock, buf, result, sink>>

\* on_enter: a span is entered in the context it was created in.
on_enter(id) ==
    /\ result = "none"
    /\ spans[id].exists
    /\ id \notin Range(stack)
    /\ spans[id].parent = lookup_current(spans, stack)
    /\ stack' = Append(stack, id)
    /\ UNCHANGED <<formatter, make_writer, spans, last_event, clock, buf, result, sink>>

on_exit(id) ==
    /\ result = "none"
    /\ stack # <<>>
    /\ stack[Len(stack)] = id
    /\ stack' = SubSeq(stack, 1, Len(stack) - 1)
    /\ UNCHANGED <<formatter, make_writer, spans, last_event, clock, buf, result, sink>>

\* A format call that takes the field buffer out of the entered span's
\* extensions while it writes the event.
format_event_taking_fields(ev, now) ==
    /\ result = "none"
    /\ make_writer = "mock" => Len(sink) < MaxEvents
    /\ \E formatted \in {FormatEvent_format_event(formatter, spans, stack, ev, now)} :
           /\ buf' = buf \o formatted.out
           /\ result' = formatted.status
    /\ last_event' = ev
    /\ clock' = now
    /\ spans' = IF stack = <<>> THEN spans
                ELSE [spans EXCEPT ![stack[Len(stack)]].formatted = [present |-> FALSE]]
    /\ UNCHANGED <<formatter, make_writer, stack, sink>>

\* The fmt layer's on_event up to the return of format_event: the event is
\* formatted into the buffer of the thread.
format_event(ev, now) ==
    /\ result = "none"
    /\ make_writer = "mock" => Len(sink) < MaxEvents
    /\ \E formatted \in {FormatEvent_format_event(formatter, spans, stack, ev, now)} :
           /\ buf' = buf \o formatted.out
           /\ result' = formatted.status
    /\ last_event' = ev
    /\ clock' = now
    /\ UNCHANGED <<formatter, make_writer, spans, stack, sink>>

\* A layer that hands the buffer to the writer whatever format_event
\* returned.
write_all_unchecked ==
    /\ result \in {"ok", "err"}
    /\ sink' = IF make_writer = "mock" THEN Append(sink, buf) ELSE sink
    /\ buf' = <<>>
    /\ result' = "none"
    /\ last_event' = NoEvent
    /\ UNCHANGED <<formatter, make_writer, spans, stack, clock>>

\* The rest of on_event: a formatted buffer goes to the writer in one
\* write_all, then the buffer is cleared. A panic has unwound the thread.
write_all ==
    /\ result \in {"ok", "err"}
    /\ sink' = IF make_writer = "mock" /\ result = "ok" THEN Append(sink, buf) ELSE sink
    /\ buf' = <<>>
    /\ result' = "none"
    /\ last_event' = NoEvent
    /\ UNCHANGED <<formatter, make_writer, spans, stack, clock>>

Event(level, target, file, line, parent, fields) ==
    [level |-> level, target |-> target, file |-> file, line |-> line,
     parent |-> parent, fields |-> fields]

Times == {0, 61}

\* The events of the specification of the span context.
FieldLists ==
    << << <<<<"m","e","s","s","a","g","e">>, Display(<<"h","i">>)>> >>,
       << <<<<"m","e","s","s","a","g","e">>, Display(<<"h","i">>)>>, <<<<"s","p","a","n">>, Str(<<"m","i","n","e">>)>> >>,
       << <<<<"f","o","o","_","b","a","r">>, I64(1)>>, <<<<"f","o","o","B","a","r">>, I64(2)>> >> >>
Events ==
    {Event("INFO", <<"a","p","p">>, Some(<<"m",".","r","s">>), Some(29), parent, FieldLists[i]) :
        parent \in 0..MaxSpans, i \in DOMAIN FieldLists}

Init ==
    /\ formatter \in UNION {Layers(opentelemetry, FALSE) : opentelemetry \in BOOLEAN}
    /\ make_writer = "stdout"
    /\ spans = [id \in SpanIds |-> NoSpan]
    /\ stack = <<>>
    /\ last_event = NoEvent
    /\ clock = 0
    /\ buf = <<>>
    /\ result = "none"
    /\ sink = <<>>

Next ==
    \/ \E i \in DOMAIN SpanInputs : on_new_span(SpanInputs[i])
    \/ \E id \in SpanIds : on_enter(id)
    \/ \E id \in SpanIds : on_exit(id)
    \/ \E ev \in Events : format_event(ev, 0)
    \/ write_all

Spec == Init /\ [][Next]_vars

(***************************************************************************)
(* The specification of the visitor: events of every level and field list  *)
(* outside of any span.                                                    *)
(***************************************************************************)
MaxFields == 2

FieldPool ==
    <<<<<<"m","e","s","s","a","g","e">>, Display(<<"h","i">>)>>,
      <<<<"s","e","v","e","r","i","t","y">>, Str(<<"n","o","t","i","c","e">>)>>,
      <<<<"s","e","v","e","r","i","t","y">>, DisplaySeverity("Alert")>>,
      <<<<"s","e","v","e","r","i","t","y">>, I64(5)>>,
      <<<<"s","e","v","e","r","i","t","y">>, Valuable(JsonObject(<< <<<<"C","r","i","t","i","c","a","l">>, JsonObject(<<>>)>> >>))>>,
      <<<<"S","e","v","e","r","i","t","y">>, Str(<<"x">>)>>,
      <<<<"s","p","a","n">>, Str(<<"m","i","n","e">>)>>,
      <<<<"h","t","t","p","_","r","e","q","u","e","s","t",".","s","t","a","t","u","s">>, U64(200)>>,
      <<<<"h","t","t","p","_","r","e","q","u","e","s","t",".","r","e","q","u","e","s","t","_","m","e","t","h","o","d">>, Str(<<"G","E","T">>)>>,
      <<<<"h","t","t","p","_","r","e","q","u","e","s","t",".","r","e","q","u","e","s","t","M","e","t","h","o","d">>, Str(<<"P","U","T">>)>>,
      <<<<"h","t","t","p","_","r","e","q","u","e","s","t">>, Display(<<"r">>)>>,
      <<<<"l","a","b","e","l","s",".","n","u","m","b","e","r">>, I64(2)>>,
      <<<<"l","a","b","e","l","s",".","b","o","o","l","e","a","n">>, Bool(FALSE)>>,
      <<<<"l","a","b","e","l","s",".","s","t","r","i","n","g">>, Str(<<"a">>)>>,
      <<<<"i","n","s","e","r","t","_","i","d">>, I64(123)>>,
      <<<<"i","n","s","e","r","t","_","i","d">>, Str(<<"m","y">>)>> >>

\* The field lists of a call site: up to MaxFields fields of the pool, each
\* list given by the positions of its fields in the pool.
FieldSeqs ==
    UNION {{at \in [1..n -> DOMAIN FieldPool] :
                \A i, j \in 1..n : i # j => at[i] # at[j]} :
           n \in 0..MaxFields}

Fields(at) == [i \in DOMAIN at |-> FieldPool[at[i]]]

uses_valuable(fields) == \E i \in DOMAIN fields : fields[i][2].ty = "valuable"

VisitorEvent(level, fields) == Event(level, <<"a","p","p">>, Some(<<"m",".","r","s">>), Some(29), 0, fields)

InitVisitor ==
    /\ formatter \in Layers(FALSE, FALSE)
                     \cup {EventFormatter_default(FALSE, TRUE)}
    /\ make_writer = "stdout"
    /\ spans = [id \in SpanIds |-> NoSpan]
    /\ stack = <<>>
    /\ last_event = NoEvent
    /\ clock = 0
    /\ buf = <<>>
    /\ result = "none"
    /\ sink = <<>>

NextVisitor ==
    \/ \E level \in Levels, at \in FieldSeqs :
           /\ uses_valuable(Fields(at)) => formatter.valuable
           /\ format_event(VisitorEvent(level, Fields(at)), 0)
    \/ write_all

SpecVisitor == InitVisitor /\ [][NextVisitor]_vars

(***************************************************************************)
(* The specification of the writer: sequences of events into the mock      *)
(* writer of the tests.                                                    *)
(***************************************************************************)
Locations == {<<None, None>>, <<Some(<<"m",".","r","s">>), None>>, <<Some(<<"m",".","r","s">>), Some(29)>>}

SeqEvents ==
    {Event(level, <<"a","p","p">>, loc[1], loc[2], 0, << <<<<"m","e","s","s","a","g","e">>, Display(<<"h","i">>)>> >>) :
        level \in {"INFO", "ERROR"}, loc \in Locations}

InitSeq ==
    /\ formatter \in {with_source_location(EventFormatter_default(FALSE, FALSE), b) :
                          b \in BOOLEAN}
                     \cup {StackdriverEventFormatter_default(FALSE, FALSE)}
    /\ make_writer = "mock"
    /\ \/ /\ spans = [id \in SpanIds |-> NoSpan]
          /\ stack = <<>>
       \/ /\ spans = [id \in SpanIds |->
                         IF id = 1
                             THEN new_span([name |-> <<"s","t","a","c","k","d","r","i","v","e","r","_","s","p","a","n">>,
                                            attrs |-> << <<<<"f","o","o">>, Str(<<"b","a","r">>)>> >>,
                                            otel |-> NoOtelData], 0)
                             ELSE NoSpan]
          /\ stack = <<1>>
    /\ last_event = NoEvent
    /\ clock = 0
    /\ buf = <<>>
    /\ result = "none"
    /\ sink = <<>>

NextSeq ==
    \/ \E ev \in SeqEvents, now \in Times : format_event(ev, now)
    \/ write_all

SpecSeq == InitSeq /\ [][NextSeq]_vars

(***************************************************************************)
(* Properties of the emitted line                                          *)
(***************************************************************************)
\* The values of the top-level entries of a line that are named key.
EntryValues(line, key) ==
    LET named == SelectSeq(line, LAMBDA token : token.tok = "entry" /\ token.k = key)
    IN  [i \in DOMAIN named |-> named[i].v]

HasKey(line, key) == EntryValues(line, key) # <<>>

HasEntry(line, key, value) ==
    \E i \in DOMAIN line :
        line[i].tok = "entry" /\ line[i].k = key /\ line[i].v = value

\* An object that holds the member key with the value.
Holds(object, key, value) ==
    /\ object.t = "obj"
    /\ \E i \in DOMAIN object.v : object.v[i][1] = key /\ object.v[i][2] = value

RawKeys(fields) == {fields[i][1] : i \in DOMAIN fields}

\* The value an event gives a field name: that of its last field so named.
LastValue(fields, key) ==
    fields[CHOOSE i \in DOMAIN fields :
               /\ fields[i][1] = key
               /\ \A j \in DOMAIN fields : fields[j][1] = key => j <= i][2]

\* The JSON value and the display form of a primitive field value.
JsonOf(value) ==
    CASE value.ty \in {"i64", "u64"} -> JsonNumber(value.arg)
      [] value.ty = "bool" -> JsonBool(value.arg)
      [] value.ty \in {"str", "display"} -> JsonString(value.arg)

DisplayOf(value) ==
    CASE value.ty \in {"i64", "u64"} -> to_string(value.arg)
      [] value.ty = "bool" -> (IF value.arg THEN <<"t","r","u","e">> ELSE <<"f","a","l","s","e">>)
      [] value.ty \in {"str", "display"} -> value.arg

\* The level mapping of the specification.
LevelMapping(level) ==
    CASE level \in {"TRACE", "DEBUG"} -> <<"D","E","B","U","G">>
      [] level = "INFO" -> <<"I","N","F","O">>
      [] level = "WARN" -> <<"W","A","R","N","I","N","G">>
      [] level = "ERROR" -> <<"E","R","R","O","R">>

ExpectedOverride(value) ==
    CASE value.ty = "str" -> <<"N","O","T","I","C","E">>
      [] value.ty = "display_severity" -> <<"A","L","E","R","T">>
      [] value.ty = "i64" -> <<"D","E","F","A","U","L","T">>
      [] value.ty = "valuable" -> <<"C","R","I","T","I","C","A","L">>

\* C2: an event with a field named severity is written with the parsed
\* override of that field's value as its severity, whatever its level, and
\* the line holds exactly one entry named severity.
C2_severity_override ==
    (result = "ok" /\ <<"s","e","v","e","r","i","t","y">> \in RawKeys(last_event.fields))
        => EntryValues(buf, <<"s","e","v","e","r","i","t","y">>)
               = <<JsonString(ExpectedOverride(LastValue(last_event.fields,
                                                         <<"s","e","v","e","r","i","t","y">>)))>>

\* The override is the first entry named severity of the line; a field named
\* Severity is written as a second one.
C2_two_severity_entries ==
    /\ result = "ok"
    /\ last_event.level = "ERROR"
    /\ last_event.fields = << <<<<"s","e","v","e","r","i","t","y">>, Str(<<"n","o","t","i","c","e">>)>>,
                              <<<<"S","e","v","e","r","i","t","y">>, Str(<<"x">>)>> >>
    /\ EntryValues(buf, <<"s","e","v","e","r","i","t","y">>) = <<JsonString(<<"N","O","T","I","C","E">>), JsonString(<<"x">>)>>

\* The fields of an event whose raw key has the prefix.
Prefixed(fields, prefix) == {i \in DOMAIN fields : starts_with(fields[i][1], prefix)}

\* What follows the prefix in a raw key.
After(key, prefix) == SubSeq(key, Len(prefix) + 1, Len(key))

HttpPrefix == <<"h","t","t","p","_","r","e","q","u","e","s","t",".">>

Kept(fields, i) ==
    CHOOSE w \in Prefixed(fields, HttpPrefix) :
        /\ to_camel_case(After(fields[w][1], HttpPrefix))
               = to_camel_case(After(fields[i][1], HttpPrefix))
        /\ \A o \in Prefixed(fields, HttpPrefix) :
               to_camel_case(After(fields[o][1], HttpPrefix))
                   = to_camel_case(After(fields[i][1], HttpPrefix))
                   => ~StrLess(fields[w][1], fields[o][1])

LabelsPrefix == <<"l","a","b","e","l","s",".">>
LabelsKey == <<"l","o","g","g","i","n","g",".","g","o","o","g","l","e","a","p","i","s",".","c","o","m","/","l","a","b","e","l","s">>
InsertIdKey == <<"l","o","g","g","i","n","g",".","g","o","o","g","l","e","a","p","i","s",".","c","o","m","/","i","n","s","e","r","t","I","d">>

CurrentSpan ==
    IF last_event.parent # 0 /\ spans[last_event.parent].exists
        THEN last_event.parent
    ELSE IF stack # <<>> THEN stack[Len(stack)]
    ELSE 0

\* C4: whenever an event has a current span, the line has a span object that
\* holds every field recorded on the span with its recorded value and a name
\* member that is the name of the span.
C4_span_object ==
    (result = "ok" /\ CurrentSpan # 0) =>
        \E j \in DOMAIN EntryValues(buf, <<"s","p","a","n">>) :
            LET object == EntryValues(buf, <<"s","p","a","n">>)[j]
                span == spans[CurrentSpan]
            IN  /\ \A i \in DOMAIN span.attrs :
                       Holds(object, span.attrs[i][1], JsonOf(span.attrs[i][2]))
                /\ Holds(object, <<"n","a","m","e">>, JsonString(span.name))

C4_explicit_parent_span ==
    /\ result = "ok"
    /\ last_event.parent = 2
    /\ stack = <<1>>
    /\ spans[2].exists
    /\ spans[2].name = <<"l","e","a","f">>
    /\ \E j \in DOMAIN buf :
           /\ buf[j].tok = "entry"
           /\ buf[j].k = <<"s","p","a","n">>
           /\ buf[j].v = JsonObject(<< <<<<"n">>, JsonNumber(7)>>,
                                       <<<<"n","a","m","e">>, JsonString(<<"l","e","a","f">>)>> >>)

ContextKeys ==
    {<<"s","p","a","n">>, <<"s","p","a","n","s">>, <<"t","r","a","c","e","I","d">>, <<"l","o","g","g","i","n","g",".","g","o","o","g","l","e","a","p","i","s",".","c","o","m","/","s","p","a","n","I","d">>,
     <<"l","o","g","g","i","n","g",".","g","o","o","g","l","e","a","p","i","s",".","c","o","m","/","t","r","a","c","e">>, <<"l","o","g","g","i","n","g",".","g","o","o","g","l","e","a","p","i","s",".","c","o","m","/","t","r","a","c","e","_","s","a","m","p","l","e","d">>}

KeysOf(line) == {line[i].k : i \in {j \in DOMAIN line : line[j].tok = "entry"}}

\* C5 as stated: an event without an explicit parent and without an entered
\* span is formatted successfully and its line has none of the keys span,
\* spans, traceId, logging.googleapis.com/spanId, logging.googleapis.com/trace
\* and logging.googleapis.com/trace_sampled.
C5_no_context_keys_as_stated ==
    (last_event # NoEvent /\ last_event.parent = 0 /\ stack = <<>>) =>
        /\ result = "ok"
        /\ KeysOf(buf) \cap ContextKeys = {}

\* C5: an event without an explicit parent and without an entered span is
\* formatted successfully and its line has none of the keys span, spans,
\* traceId, logging.googleapis.com/spanId, logging.googleapis.com/trace and
\* logging.googleapis.com/trace_sampled, except a key that one of the event's
\* own field names normalizes to.
C5_no_context_keys ==
    (last_event # NoEvent /\ last_event.parent = 0 /\ stack = <<>>) =>
        /\ result = "ok"
        /\ (KeysOf(buf) \cap ContextKeys)
               \subseteq {to_camel_case(key) : key \in RawKeys(last_event.fields)}

C5_spans_exist_none_entered ==
    /\ result = "ok"
    /\ last_event.parent = 0
    /\ stack = <<>>
    /\ spans[1].exists
    /\ <<"s","p","a","n">> \notin RawKeys(last_event.fields)
    /\ KeysOf(buf) = {<<"t","i","m","e">>, <<"t","a","r","g","e","t">>, <<"l","o","g","g","i","n","g",".","g","o","o","g","l","e","a","p","i","s",".","c","o","m","/","s","o","u","r","c","e","L","o","c","a","t","i","o","n">>,
                      <<"s","e","v","e","r","i","t","y">>, <<"m","e","s","s","a","g","e">>}

TraceKey == <<"l","o","g","g","i","n","g",".","g","o","o","g","l","e","a","p","i","s",".","c","o","m","/","t","r","a","c","e">>

\* The trace id the trace attachment of a span yields: that of the active
\* span of its parent context, that of its builder without one.
AttachedTraceId(otel) ==
    IF otel.parent_cx.has_active_span THEN Some(otel.parent_cx.trace_id)
    ELSE otel.builder.trace_id

TraceEmitted ==
    /\ formatter.opentelemetry
    /\ formatter.project_id.some
    /\ CurrentSpan # 0
    /\ spans[CurrentSpan].otel.present
    /\ AttachedTraceId(spans[CurrentSpan].otel).some

\* C7: the line has the entry logging.googleapis.com/trace if and only if the
\* trace integration is on, the current span has a trace attachment that
\* yields a trace id and a project id is configured; its value is then
\* projects/<project_id>/traces/<trace_id>. The default configuration, which
\* has no project id, never emits it.
C7_trace_entry ==
    result = "ok" =>
        IF TraceEmitted
            THEN EntryValues(buf, TraceKey)
                     = <<JsonString(<<"p","r","o","j","e","c","t","s","/">> \o formatter.project_id.v
                                    \o <<"/","t","r","a","c","e","s","/">>
                                    \o TraceId_to_string(
                                           AttachedTraceId(spans[CurrentSpan].otel).v))>>
            ELSE ~HasKey(buf, TraceKey)

C7_trace_of_remote_parent ==
    /\ result = "ok"
    /\ formatter.kind = "EventFormatter"
    /\ CurrentSpan # 0
    /\ spans[CurrentSpan].name = <<"r","o","o","t">>
    /\ EntryValues(buf, TraceKey)
           = <<JsonString(
                 <<"p","r","o","j","e","c","t","s","/","m","y","_","p","r","o","j","e","c","t","_","1","2","3","/","t","r","a","c","e","s","/","0","0","0","0","0","0","0","0","0","0","0","0","0","0","0","0","0","0","0","0","0","0","0","0","0","0","0","0","0","0","0","a">>)>>

SourceLocationKey == <<"l","o","g","g","i","n","g",".","g","o","o","g","l","e","a","p","i","s",".","c","o","m","/","s","o","u","r","c","e","L","o","c","a","t","i","o","n">>

Complete(line) ==
    /\ Len(line) >= 3
    /\ line[1].tok = "{"
    /\ line[Len(line) - 1].tok = "}"
    /\ line[Len(line)].tok = "\n"
    /\ \A i \in 2..(Len(line) - 2) : line[i].tok = "entry"

\* The line format_event gives the last event on its own, from an empty
\* buffer.
LineOfLastEvent ==
    FormatEvent_format_event(formatter, spans, stack, last_event, clock).out

\* C10: every successfully formatted event adds exactly one line to the
\* output, after the lines of the events before it; the line is one complete
\* object of that event alone followed by one newline, and nothing else
\* changes the output.
C10_one_line_per_event ==
    [][IF result = "ok" /\ result' = "none"
           THEN \E line \in {LineOfLastEvent} :
                    sink' = Append(sink, line) /\ Complete(line)
           ELSE sink' = sink]_vars

C10_two_lines_in_order ==
    /\ Len(sink) = 2
    /\ Complete(sink[1])
    /\ Complete(sink[2])
    /\ HasEntry(sink[1], <<"s","e","v","e","r","i","t","y">>, JsonString(<<"E","R","R","O","R">>))
    /\ HasEntry(sink[1], <<"t","i","m","e">>, JsonString(<<"1","9","7","0","-","0","1","-","0","1","T","0","0",":","0","1",":","0","1","Z">>))
    /\ HasEntry(sink[2], <<"s","e","v","e","r","i","t","y">>, JsonString(<<"I","N","F","O">>))
    /\ HasEntry(sink[2], <<"t","i","m","e">>, JsonString(<<"1","9","7","0","-","0","1","-","0","1","T","0","0",":","0","0",":","0","0","Z">>))

(***************************************************************************)
(* The specification of a failing writer: format_event over a fmt::Write   *)
(* that refuses one of its writes, and a wall clock that may be set back.  *)
(***************************************************************************)
\* Err(fmt::Error): impl From<Error> for fmt::Error keeps nothing of the Error.
Failed(out) == [status |-> "err", out |-> out]

\* A writer adaptor that drops the error of a refused write.
WriteAdaptor_write_swallowing(outcome, accepts) ==
    IF accepts < Len(outcome.out) THEN Done(SubSeq(outcome.out, 1, accepts))
    ELSE outcome

\* impl io::Write for WriteAdaptor over a fmt::Write that accepts `accepts`
\* writes: the writes of format_event up to the refused one, whose error ends
\* the call through `?`.
WriteAdaptor_write(outcome, accepts) ==
    IF accepts < Len(outcome.out) THEN Failed(SubSeq(outcome.out, 1, accepts))
    ELSE outcome

\* The fmt layer's on_event up to the return of format_event, over a writer
\* that accepts any number of the writes of the line or all of them.
format_event_on(ev, now) ==
    /\ result = "none"
    /\ make_writer = "mock" => Len(sink) < MaxEvents
    /\ \E line \in {FormatEvent_format_event(formatter, spans, stack, ev, now)} :
           \E accepts \in 0..Len(line.out) :
               \E formatted \in {WriteAdaptor_write(line, accepts)} :
                   /\ buf' = buf \o formatted.out
                   /\ result' = formatted.status
    /\ last_event' = ev
    /\ clock' = now
    /\ UNCHANGED <<formatter, make_writer, spans, stack, sink>>

\* What the fmt layer writes for an event it could not format.
ErrorMessage == <<[tok |-> "Unable to format the following event"]>>

\* The rest of on_event after a format_event that returned Err, in a fmt
\* layer that logs internal errors: the message goes to the writer in a write
\* of its own, then the buffer is cleared. A layer that does not log them
\* clears the buffer only, as write_all does.
log_internal_error ==
    /\ result = "err"
    /\ sink' = IF make_writer = "mock" THEN Append(sink, ErrorMessage) ELSE sink
    /\ buf' = <<>>
    /\ result' = "none"
    /\ last_event' = NoEvent
    /\ UNCHANGED <<formatter, make_writer, spans, stack, clock>>

\* Readings of the wall clock, in any order.
Readings == {0, 9, 70}

WriterEvents ==
    {Event(level, <<"a","p","p">>, Some(<<"m",".","r","s">>), Some(29), 0, << <<<<"m","e","s","s","a","g","e">>, Display(<<"h","i">>)>> >>) :
        level \in {"INFO", "ERROR"}}

NextWriter ==
    \/ \E ev \in WriterEvents, now \in Readings : format_event_on(ev, now)
    \/ write_all
    \/ log_internal_error

SpecWriter == InitSeq /\ [][NextWriter]_vars

(***************************************************************************)
(* The specification of the severity parser: events whose severity field   *)
(* is a free text, in every letter case of the names the parser knows.     *)
(***************************************************************************)
\* The names of FromStr and texts that are none of them.
SeverityNames ==
    <<<<"d","e","b","u","g">>, <<"t","r","a","c","e">>, <<"i","n","f","o">>, <<"n","o","t","i","c","e">>, <<"w","a","r","n">>, <<"w","a","r","n","i","n","g">>, <<"e","r","r","o","r">>,
      <<"c","r","i","t","i","c","a","l">>, <<"a","l","e","r","t">>, <<"e","m","e","r","g","e","n","c","y">>>>
OtherTexts ==
    {<<>>, <<"d","e","f","a","u","l","t">>, <<"D","E","F","A","U","L","T">>, <<"f","a","t","a","l">>, <<"w","a","r","n","i","n">>, <<"i","n","f","o","o">>, <<" ","i","n","f","o">>, <<"e","r","r">>,
     <<"0">>, <<"e","_","r","_","r","_","o","_","r">>}

\* A word with the letters at the positions of the mask in upper case.
Cased(word, mask) ==
    [i \in DOMAIN word |-> IF mask[i] THEN to_ascii_uppercase(word[i]) ELSE word[i]]

SeverityTexts ==
    OtherTexts
        \cup UNION {{Cased(SeverityNames[n], mask) :
                        mask \in [DOMAIN SeverityNames[n] -> BOOLEAN]} :
                    n \in DOMAIN SeverityNames}

SeverityEvent(text) == VisitorEvent("INFO", << <<<<"s","e","v","e","r","i","t","y">>, Str(text)>> >>)

InitSeverity ==
    /\ formatter = EventFormatter_default(FALSE, FALSE)
    /\ make_writer = "stdout"
    /\ spans = [id \in SpanIds |-> NoSpan]
    /\ stack = <<>>
    /\ last_event = NoEvent
    /\ clock = 0
    /\ buf = <<>>
    /\ result = "none"
    /\ sink = <<>>

NextSeverity ==
    \/ \E text \in SeverityTexts : format_event(SeverityEvent(text), 0)
    \/ write_all

SpecSeverity == InitSeverity /\ [][NextSeverity]_vars

(***************************************************************************)
(* The specification of the trace integration: the nested spans of         *)
(* tests/opentelemetry.rs under the attached context of a remote caller.   *)
(***************************************************************************)
\* The context test_with_tracing attaches: the span of the caller, not
\* sampled.
AttachedContext == RemoteContext(10, 11, FALSE)

OtelSpanNames == <<<<"r","o","o","t">>, <<"i","n","n","e","r">>, <<"i","n","n","e","r","m","o","s","t">>, <<"l","e","a","f">>>>

\* What tracing_opentelemetry gives the span it creates under a parent
\* context: a span id of its own and the parent context, which carries the
\* trace id on.
ChildOtelData(id, parent_cx) == OtelData(Some(id), None, parent_cx)

\* The context of a span for its children: the trace of its parent context
\* and its own span id.
ContextOf(otel_data) ==
    RemoteContext(otel_data.parent_cx.trace_id, otel_data.builder.span_id.v,
                  otel_data.parent_cx.is_sampled)

\* The OtelData of the span with the id in a chain of nested spans, each
\* created while its predecessor was entered.
RECURSIVE NestedOtelData(_)
NestedOtelData(id) ==
    ChildOtelData(id, IF id = 1 THEN AttachedContext
                      ELSE ContextOf(NestedOtelData(id - 1)))

NestedSpan(id) ==
    new_span([name |-> OtelSpanNames[id], attrs |-> <<>>,
              otel |-> NestedOtelData(id)], id - 1)

OtelEvents ==
    {Event("DEBUG", <<"a","p","p">>, Some(<<"m",".","r","s">>), Some(29), parent,
           << <<<<"m","e","s","s","a","g","e">>, Display(<<"h","i">>)>> >>) : parent \in 0..MaxSpans}

InitOtel ==
    /\ formatter \in Layers(TRUE, FALSE)
    /\ make_writer = "mock"
    /\ spans = [id \in SpanIds |-> NestedSpan(id)]
    /\ stack = <<>>
    /\ last_event = NoEvent
    /\ clock = 0
    /\ buf = <<>>
    /\ result = "none"
    /\ sink = <<>>

NextOtel ==
    \/ \E id \in SpanIds : on_enter(id)
    \/ \E id \in SpanIds : on_exit(id)
    \/ \E ev \in OtelEvents : format_event(ev, 0)
    \/ write_all

SpecOtel == InitOtel /\ [][NextOtel]_vars

(***************************************************************************)
(* The specification of the traceId entry: spans that declare a field      *)
(* trace_id, alone or among other fields, as examples/demo_full_fields.rs  *)
(* creates them.                                                           *)
(***************************************************************************)
TraceSpanInputs ==
    <<[name |-> <<"e","n","d","p","o","i","n","t">>, attrs |-> << <<<<"t","r","a","c","e","_","i","d">>, Display(<<"a","b">>)>> >>,
       otel |-> NoOtelData],
      [name |-> <<"b","u","s","i","n","e","s","s">>, attrs |-> <<>>, otel |-> NoOtelData],
      [name |-> <<"t","a","g","g","e","d">>,
       attrs |-> << <<<<"f","o","o">>, Str(<<"b","a","r">>)>>, <<<<"t","r","a","c","e","_","i","d">>, Display(<<"c","d">>)>> >>,
       otel |-> NoOtelData],
      [name |-> <<"z","o","n","e","d">>,
       attrs |-> << <<<<"t","r","a","c","e","_","i","d">>, Display(<<"e","f">>)>>, <<<<"z","e","t","a">>, Str(<<"x">>)>> >>,
       otel |-> NoOtelData],
      [name |-> <<"n","u","m","b","e","r","e","d">>, attrs |-> << <<<<"t","r","a","c","e","_","i","d">>, U64(7)>> >>,
       otel |-> NoOtelData]>>

TraceEvents ==
    {Event("INFO", <<"a","p","p">>, Some(<<"m",".","r","s">>), Some(29), parent,
           << <<<<"m","e","s","s","a","g","e">>, Display(<<"h","i">>)>> >>) : parent \in 0..MaxSpans}

InitTraceId ==
    /\ formatter \in {EventFormatter_default(FALSE, FALSE),
                      StackdriverEventFormatter_default(FALSE, FALSE)}
    /\ make_writer = "stdout"
    /\ spans = [id \in SpanIds |-> NoSpan]
    /\ stack = <<>>
    /\ last_event = NoEvent
    /\ clock = 0
    /\ buf = <<>>
    /\ result = "none"
    /\ sink = <<>>

NextTraceId ==
    \/ \E i \in DOMAIN TraceSpanInputs : on_new_span(TraceSpanInputs[i])
    \/ \E id \in SpanIds : on_enter(id)
    \/ \E id \in SpanIds : on_exit(id)
    \/ \E ev \in TraceEvents : format_event(ev, 0)
    \/ write_all

SpecTraceId == InitTraceId /\ [][NextTraceId]_vars

(***************************************************************************)
(* The specification of the cloud trace entries: spans with the OtelData   *)
(* of every shape the block of format_event distinguishes, a parent        *)
(* context with an active span (sampled or not) or without one, a trace id *)
(* and a span id in the builder or none.                                   *)
(***************************************************************************)
SampledContext == RemoteContext(10, 3, TRUE)
UnsampledContext == RemoteContext(10, 3, FALSE)

CloudTraceSpanInputs ==
    <<[name |-> <<"s","a","m","p","l","e","d">>, attrs |-> <<>>,
       otel |-> OtelData(Some(1), Some(11), SampledContext)],
      [name |-> <<"u","n","s","a","m","p","l","e","d">>, attrs |-> <<>>,
       otel |-> OtelData(Some(2), Some(11), UnsampledContext)],
      [name |-> <<"b","a","r","e">>, attrs |-> <<>>,
       otel |-> OtelData(None, None, SampledContext)],
      [name |-> <<"s","t","a","r","t","e","d">>, attrs |-> <<>>,
       otel |-> OtelData(Some(4), Some(11), EmptyContext)],
      [name |-> <<"i","d","l","e">>, attrs |-> <<>>,
       otel |-> OtelData(Some(5), None, EmptyContext)],
      [name |-> <<"p","l","a","i","n">>, attrs |-> <<>>, otel |-> NoOtelData]>>

\* The fields of the events: a message, or a field the program names like
\* the sampled entry and sets to false.
CloudTraceFieldLists ==
    << << <<<<"m","e","s","s","a","g","e">>, Display(<<"h","i">>)>> >>,
       << <<<<"l","o","g","g","i","n","g",".","g","o","o","g","l","e","a","p","i","s",".","c","o","m","/","t","r","a","c","e","_","s","a","m","p","l","e","d">>, Bool(FALSE)>> >> >>

CloudTraceEvents ==
    {Event("INFO", <<"a","p","p">>, Some(<<"m",".","r","s">>), Some(29), parent, CloudTraceFieldLists[i]) :
        parent \in 0..MaxSpans, i \in DOMAIN CloudTraceFieldLists}

InitCloudTrace ==
    /\ formatter \in Layers(TRUE, FALSE)
    /\ make_writer = "stdout"
    /\ spans = [id \in SpanIds |-> NoSpan]
    /\ stack = <<>>
    /\ last_event = NoEvent
    /\ clock = 0
    /\ buf = <<>>
    /\ result = "none"
    /\ sink = <<>>

NextCloudTrace ==
    \/ \E i \in DOMAIN CloudTraceSpanInputs : on_new_span(CloudTraceSpanInputs[i])
    \/ \E id \in SpanIds : on_enter(id)
    \/ \E id \in SpanIds : on_exit(id)
    \/ \E ev \in CloudTraceEvents : format_event(ev, 0)
    \/ write_all

SpecCloudTrace == InitCloudTrace /\ [][NextCloudTrace]_vars

(***************************************************************************)
(* The specification of the structured severity override: events whose     *)
(* severity field is recorded through record_value, as tests/valuable.rs   *)
(* records LogSeverity::Notice.as_value(), for JSON values of every kind.  *)
(***************************************************************************)
JsonNull == [t |-> "null", v |-> <<>>]

StructuredSeverities ==
    <<JsonString(<<"n","o","t","i","c","e">>),
      JsonString(<<"A","l","e","r","t">>),
      JsonString(<<"n","o","n","s","e","n","s","e">>),
      JsonNumber(5),
      JsonBool(TRUE),
      JsonNull,
      JsonArray(<<JsonString(<<"e","r","r","o","r">>)>>),
      JsonObject(<<>>),
      JsonObject(<< <<<<"N","o","t","i","c","e">>, JsonObject(<<>>)>> >>),
      JsonObject(<< <<<<"C","R","I","T","I","C","A","L">>, JsonNull>> >>),
      JsonObject(<< <<<<"n","o","n","s","e","n","s","e">>, JsonNumber(1)>> >>),
      JsonObject(<< <<<<"a","l","e","r","t">>, JsonNumber(1)>>, <<<<"z","e","t","a">>, JsonNumber(2)>> >>),
      JsonObject(<< <<<<"a","a","a">>, JsonNumber(1)>>, <<<<"e","r","r","o","r">>, JsonNumber(2)>> >>),
      JsonObject(<< <<<<"e","r","r","o","r">>, JsonNumber(1)>>, <<<<"w","a","r","n","i","n","g">>, JsonNumber(2)>>,
                    <<<<"z","e","t","a">>, JsonNumber(3)>> >>)>>

SeverityLevels == <<"TRACE", "DEBUG", "INFO", "WARN", "ERROR">>

\* The events: every level with every structured severity.
StructuredEvents ==
    [k \in 1..(Len(SeverityLevels) * Len(StructuredSeverities)) |->
        VisitorEvent(SeverityLevels[((k - 1) % Len(SeverityLevels)) + 1],
                     << <<<<"s","e","v","e","r","i","t","y">>,
                          Valuable(StructuredSeverities[((k - 1) \div Len(SeverityLevels)) + 1])>> >>)]

InitStructured ==
    /\ formatter \in {EventFormatter_default(FALSE, TRUE),
                      StackdriverEventFormatter_default(FALSE, TRUE)}
    /\ make_writer = "stdout"
    /\ spans = [id \in SpanIds |-> NoSpan]
    /\ stack = <<>>
    /\ last_event = NoEvent
    /\ clock = 0
    /\ buf = <<>>
    /\ result = "none"
    /\ sink = <<>>

NextStructured ==
    \/ \E k \in DOMAIN StructuredEvents : format_event(StructuredEvents[k], 0)
    \/ write_all

SpecStructured == InitStructured /\ [][NextStructured]_vars

(***************************************************************************)
(* The specification of the assembled line: every entry source at once.    *)
(* The spans of the program exist from the start, the outermost with a     *)
(* trace_id field and OtelData, and the events carry fields of every class *)
(* in every call-site order, a field name twice among them.                *)
(***************************************************************************)
OrderPool ==
    <<<<<<"m","e","s","s","a","g","e">>, Display(<<"h","i">>)>>,
      <<<<"s","e","v","e","r","i","t","y">>, Str(<<"n","o","t","i","c","e">>)>>,
      <<<<"h","t","t","p","_","r","e","q","u","e","s","t",".","s","t","a","t","u","s">>, U64(200)>>,
      <<<<"l","a","b","e","l","s",".","t","e","a","m">>, Str(<<"a">>)>>,
      <<<<"z","e","t","a">>, I64(1)>>,
      <<<<"A","l","p","h","a">>, Bool(TRUE)>>,
      <<<<"f","o","o","_","b","a","r">>, I64(1)>>,
      <<<<"f","o","o","B","a","r">>, I64(2)>>,
      <<<<"z","e","t","a">>, I64(2)>> >>

\* The field lists of a call site: up to MaxFields fields of the pool in
\* every order, each list given by the positions of its fields in the pool.
OrderSeqs ==
    UNION {{at \in [1..n -> DOMAIN OrderPool] :
                \A i, j \in 1..n : i # j => at[i] # at[j]} :
           n \in 0..MaxFields}

OrderFields(at) == [i \in DOMAIN at |-> OrderPool[at[i]]]

OrderEvents ==
    {Event("WARN", <<"a","p","p">>, Some(<<"m",".","r","s">>), Some(29), 0, OrderFields(at)) : at \in OrderSeqs}

OrderSpan(id) ==
    new_span([name |-> OtelSpanNames[id],
              attrs |-> IF id = 1 THEN << <<<<"t","r","a","c","e","_","i","d">>, Display(<<"a","b">>)>> >> ELSE <<>>,
              otel |-> IF id = 1 THEN OtelData(Some(1), None, SampledContext)
                       ELSE NoOtelData],
             id - 1)

InitOrder ==
    /\ formatter \in Layers(TRUE, FALSE)
                     \cup {with_source_location(EventFormatter_default(TRUE, FALSE), FALSE)}
    /\ make_writer = "stdout"
    /\ spans = [id \in SpanIds |-> OrderSpan(id)]
    /\ stack = <<>>
    /\ last_event = NoEvent
    /\ clock = 0
    /\ buf = <<>>
    /\ result = "none"
    /\ sink = <<>>

NextOrder ==
    \/ \E id \in SpanIds : on_enter(id)
    \/ \E id \in SpanIds : on_exit(id)
    \/ \E ev \in OrderEvents : format_event(ev, 0)
    \/ write_all

SpecOrder == InitOrder /\ [][NextOrder]_vars

(***************************************************************************)
(* The specification of the span's field buffer: spans whose               *)
(* FormattedFields extension holds the text of an object, another text, or *)
(* is missing.                                                             *)
(***************************************************************************)
FooBar == << <<<<"f","o","o">>, Str(<<"b","a","r">>)>> >>

\* What the registry can hold for a span: the first two are the texts of
\* objects, the third is absent, the next six are no object's text (two
\* objects in a row, nothing, a truncated object, a string, a number, a
\* boolean), the last is the text of the fields of a span that has a field
\* called name.
Buffers ==
    <<[present |-> TRUE, text |-> render_fields(FooBar)],
      [present |-> TRUE, text |-> render_fields(<<>>)],
      [present |-> FALSE],
      [present |-> TRUE, text |-> render_fields(FooBar) \o render_fields(FooBar)],
      [present |-> TRUE, text |-> <<>>],
      [present |-> TRUE, text |-> SubSeq(render_fields(FooBar), 1, 7)],
      [present |-> TRUE, text |-> <<"\"">> \o <<"f","o","o">> \o <<"\"">>],
      [present |-> TRUE, text |-> <<"7">>],
      [present |-> TRUE, text |-> <<"t","r","u","e">>],
      [present |-> TRUE, text |-> render_fields(<< <<<<"n","a","m","e">>, Str(<<"m","i","n","e">>)>> >>)]>>

BufferSpan(id, buffer) ==
    [new_span([name |-> OtelSpanNames[id], attrs |-> <<>>, otel |-> NoOtelData], id - 1)
        EXCEPT !.formatted = buffer]

BufferEvents ==
    {Event("INFO", <<"a","p","p">>, Some(<<"m",".","r","s">>), Some(29), parent,
           << <<<<"m","e","s","s","a","g","e">>, Display(<<"h","i">>)>> >>) : parent \in 0..MaxSpans}

InitBuffer ==
    /\ formatter \in {EventFormatter_default(FALSE, FALSE),
                      StackdriverEventFormatter_default(FALSE, FALSE)}
    /\ make_writer = "stdout"
    /\ \E pick \in [SpanIds -> DOMAIN Buffers] :
           spans = [id \in SpanIds |-> BufferSpan(id, Buffers[pick[id]])]
    /\ stack = <<>>
    /\ last_event = NoEvent
    /\ clock = 0
    /\ buf = <<>>
    /\ result = "none"
    /\ sink = <<>>

NextBuffer ==
    \/ \E id \in SpanIds : on_enter(id)
    \/ \E id \in SpanIds : on_exit(id)
    \/ \E ev \in BufferEvents : format_event(ev, 0)
    \/ write_all

SpecBuffer == InitBuffer /\ [][NextBuffer]_vars

(***************************************************************************)
(* Properties of sequences of events                                       *)
(***************************************************************************)
\* The text of the time entry of a line.
TimeOf(line) == EntryValues(line, <<"t","i","m","e">>)[1].v

\* The instant an RFC 3339 text of the first hour of the epoch names, in
\* seconds: its minutes and its seconds, read digit by digit.
Seconds(text) ==
    60 * parse_digits(split(text, <<>>)[2], 0).value.v
        + parse_digits(split(text, <<>>)[3], 0).value.v

FullLine(ev, now) == FormatEvent_format_event(formatter, spans, stack, ev, now).out

IsStrictPrefix(s, t) == Len(s) < Len(t) /\ s = SubSeq(t, 1, Len(s))

\* C12: a format call whose writer refuses a write returns the formatting
\* error, whichever step made the write; the buffer then holds the writes
\* before the refused one and nothing after it, in particular no newline; a
\* call whose writes are all accepted returns Ok with the whole line, also
\* after failed calls; and a failed call leaves the layer as it was before
\* the event.
C12_failure_aborts_event ==
    [][/\ (result = "none" /\ result' # "none") =>
              \E line \in {FullLine(last_event', clock')} :
                  IF buf' = line THEN result' = "ok"
                  ELSE /\ result' = "err"
                       /\ IsStrictPrefix(buf', line)
                       /\ \A i \in DOMAIN buf' : buf'[i].tok # "\n"
       /\ result = "err" =>
              /\ result' = "none"
              /\ buf' = <<>>
              /\ \A i \in DOMAIN sink : sink'[i] = sink[i]
              /\ \A i \in DOMAIN sink' : i > Len(sink) => sink'[i] = ErrorMessage
              /\ UNCHANGED <<formatter, make_writer, spans, stack>>]_vars

\* A call that failed on the write of the target entry, after an event that
\* was written.
C12_refused_after_time ==
    /\ result = "err"
    /\ Len(sink) = 1
    /\ Complete(sink[1])
    /\ Len(buf) = 2
    /\ buf[2].k = <<"t","i","m","e">>

\* C13 as stated: the keys of the top-level entries of a line are pairwise
\* distinct, whatever the fields of the event and the entries the formatter
\* writes itself.
C13_keys_pairwise_distinct ==
    result = "ok" =>
        \A i, j \in DOMAIN buf :
            (i # j /\ buf[i].tok = "entry" /\ buf[j].tok = "entry")
                => buf[i].k # buf[j].k

\* The fields foo_bar and fooBar of one event are both written, under the
\* same key, in the order of their raw keys.
C13_foo_bar_written_twice ==
    /\ result = "ok"
    /\ RawKeys(last_event.fields) = {<<"f","o","o","_","b","a","r">>, <<"f","o","o","B","a","r">>}
    /\ EntryValues(buf, <<"f","o","o","B","a","r">>) = <<JsonNumber(2), JsonNumber(1)>>

\* The severity the specification gives each name of a free-text override.
NamedSeverity ==
    << <<<<"d","e","b","u","g">>, "Debug">>, <<<<"t","r","a","c","e">>, "Debug">>, <<<<"i","n","f","o">>, "Info">>,
       <<<<"n","o","t","i","c","e">>, "Notice">>, <<<<"w","a","r","n">>, "Warning">>, <<<<"w","a","r","n","i","n","g">>, "Warning">>,
       <<<<"e","r","r","o","r">>, "Error">>, <<<<"c","r","i","t","i","c","a","l">>, "Critical">>, <<<<"a","l","e","r","t">>, "Alert">>,
       <<<<"e","m","e","r","g","e","n","c","y">>, "Emergency">> >>

\* Two texts that differ in the case of their letters at most.
SameIgnoringCase(a, b) ==
    /\ Len(a) = Len(b)
    /\ \A i \in DOMAIN a :
           \/ a[i] = b[i]
           \/ \E l \in DOMAIN Lowers :
                  {a[i], b[i]} = {Lowers[l], Uppers[l]}

ExpectedSeverity(text) ==
    IF \E n \in DOMAIN NamedSeverity : SameIgnoringCase(text, NamedSeverity[n][1])
        THEN NamedSeverity[CHOOSE n \in DOMAIN NamedSeverity :
                               SameIgnoringCase(text, NamedSeverity[n][1])][2]
        ELSE "Default"

\* The free text of the severity field of the last event.
SeverityText == last_event.fields[1][2].arg

\* C14: the parse of a free-text severity is a severity for every text: the
\* one its name stands for when the text is one of debug, trace, info,
\* notice, warn, warning, error, critical, alert and emergency in any letter
\* case, Default for every other text, the empty text and "default" included;
\* and the display form of every severity but Default parses back to it.
C14_from_str_total ==
    /\ \A severity \in LogSeverity \ {"Default"} :
           LogSeverity_from_str(LogSeverity_fmt(severity)) = severity
    /\ last_event # NoEvent =>
           /\ LogSeverity_from_str(SeverityText) \in LogSeverity
           /\ LogSeverity_from_str(SeverityText) = ExpectedSeverity(SeverityText)

C14_mixed_case_warning ==
    /\ result = "ok"
    /\ SeverityText = <<"W","a","R","n","I","n","G">>
    /\ LogSeverity_from_str(SeverityText) = "Warning"
    /\ EntryValues(buf, <<"s","e","v","e","r","i","t","y">>) = <<JsonString(<<"W","A","R","N","I","N","G">>)>>

SpanIdKey == <<"l","o","g","g","i","n","g",".","g","o","o","g","l","e","a","p","i","s",".","c","o","m","/","s","p","a","n","I","d">>

\* The name member of the span entry of a line.
SpanNameOf(line) ==
    LET object == EntryValues(line, <<"s","p","a","n">>)[1].v
    IN  object[CHOOSE i \in DOMAIN object : object[i][1] = <<"n","a","m","e">>][2].v

\* The lines of the output that have a span entry.
SpanLines == {i \in DOMAIN sink : HasKey(sink[i], <<"s","p","a","n">>)}

\* C15: with the trace integration on and configured, the spanId entry of an
\* event in a span is the span id of that span and never the span id of the
\* caller's context, its trace entry names the trace of the caller's context,
\* and two lines of events in different spans differ in their spanId and
\* agree in their trace.
C15_span_id_of_current_span ==
    (formatter.opentelemetry /\ formatter.project_id.some) =>
        /\ (result = "ok" /\ CurrentSpan # 0) =>
               /\ EntryValues(buf, SpanIdKey)
                      = <<JsonString(to_hex(spans[CurrentSpan].otel.builder.span_id.v, 16))>>
               /\ EntryValues(buf, SpanIdKey)
                      # <<JsonString(to_hex(AttachedContext.span_id, 16))>>
               /\ EntryValues(buf, TraceKey)
                      = <<JsonString(<<"p","r","o","j","e","c","t","s","/","m","y","_","p","r","o","j","e","c","t","_","1","2","3","/","t","r","a","c","e","s","/">>
                                     \o to_hex(AttachedContext.trace_id, 32))>>
        /\ \A i, j \in SpanLines :
               /\ SpanNameOf(sink[i]) # SpanNameOf(sink[j])
                      => EntryValues(sink[i], SpanIdKey) # EntryValues(sink[j], SpanIdKey)
               /\ EntryValues(sink[i], TraceKey) = EntryValues(sink[j], TraceKey)

C15_root_then_inner ==
    /\ formatter.kind = "EventFormatter"
    /\ Len(sink) = 2
    /\ EntryValues(sink[1], SpanIdKey) = <<JsonString(<<"0","0","0","0","0","0","0","0","0","0","0","0","0","0","0","1">>)>>
    /\ EntryValues(sink[2], SpanIdKey) = <<JsonString(<<"0","0","0","0","0","0","0","0","0","0","0","0","0","0","0","2">>)>>
    /\ EntryValues(sink[1], TraceKey)
           = <<JsonString(<<"p","r","o","j","e","c","t","s","/","m","y","_","p","r","o","j","e","c","t","_","1","2","3","/","t","r","a","c","e","s","/","0","0","0","0","0","0","0","0","0","0","0","0","0","0","0","0","0","0","0","0","0","0","0","0","0","0","0","0","0","0","0","a">>)>>
    /\ EntryValues(sink[2], TraceKey) = EntryValues(sink[1], TraceKey)

\* C16 as stated: every event, formatted successfully or not, ends with
\* exactly one write to the writer, and the write is the whole line of the
\* event.
C16_one_write_per_event_as_stated ==
    [][(result \in {"ok", "err"} /\ result' = "none") =>
           /\ Len(sink') = Len(sink) + 1
           /\ sink'[Len(sink')] = FullLine(last_event, clock)]_vars

\* C16: an event that is formatted successfully ends with exactly one write
\* to the writer, which is the whole buffered line, complete and with its
\* newline; an event whose formatting failed ends without a write of any
\* part of its line, with at most the fmt layer's own error message; the
\* writer receives nothing before the format call has returned and never a
\* partial line.
C16_one_write_of_whole_line ==
    [][/\ (result = "ok" /\ result' = "none") =>
              /\ sink' = Append(sink, buf)
              /\ buf = FullLine(last_event, clock)
              /\ Complete(buf)
       /\ (result = "err" /\ result' = "none") =>
              sink' \in {sink, Append(sink, ErrorMessage)}
       /\ ~(result \in {"ok", "err"} /\ result' = "none") => sink' = sink
       /\ \A i \in DOMAIN sink' : Complete(sink'[i]) \/ sink'[i] = ErrorMessage]_vars

\* A failed event, then an event whose line was written.
C16_line_after_failed_event ==
    /\ Len(sink) = 2
    /\ sink[1] = ErrorMessage
    /\ Complete(sink[2])
    /\ result = "none"

\* The chain of the current span of the last event: the span and its
\* ancestors, by the parent links of the registry.
RECURSIVE Ancestry(_)
Ancestry(id) == IF id = 0 THEN {} ELSE {id} \cup Ancestry(spans[id].parent)

\* The spans of the chain that declare a field trace_id.
Declaring == {id \in Ancestry(CurrentSpan) : <<"t","r","a","c","e","_","i","d">> \in RawKeys(spans[id].attrs)}

\* The recorded trace_id value of a span as a JSON value.
RecordedTraceId(id) == JsonOf(LastValue(spans[id].attrs, <<"t","r","a","c","e","_","i","d">>))

\* C17 as stated: an event formatted in the chain of a span that declares a
\* field trace_id is written with one traceId entry, the recorded value of
\* the field of such a span, whatever the other fields of the span; an event
\* in the chain of no such span has no traceId entry.
C17_trace_id_of_span_as_stated ==
    (last_event # NoEvent /\ formatter.kind = "EventFormatter") =>
        /\ result = "ok"
        /\ IF Declaring # {}
               THEN \E id \in Declaring :
                        EntryValues(buf, <<"t","r","a","c","e","I","d">>) = <<RecordedTraceId(id)>>
               ELSE ~HasKey(buf, <<"t","r","a","c","e","I","d">>)

\* The traceId of an event in a span with the fields foo and trace_id is cut
\* out of the text of both fields.
C17_trace_id_cut_from_other_field ==
    /\ result = "ok"
    /\ CurrentSpan # 0
    /\ spans[CurrentSpan].name = <<"t","a","g","g","e","d">>
    /\ EntryValues(buf, <<"s","p","a","n">>)
           = <<JsonObject(<< <<<<"f","o","o">>, JsonString(<<"b","a","r">>)>>,
                             <<<<"t","r","a","c","e","_","i","d">>, JsonString(<<"c","d">>)>>,
                             <<<<"n","a","m","e">>, JsonString(<<"t","a","g","g","e","d">>)>> >>)>>
    /\ EntryValues(buf, <<"t","r","a","c","e","I","d">>)
           = <<JsonString(<<"b", "a", "r", "\"", ",", "\"">> \o <<"t","r","a","c","e","_","i">>)>>

\* The span entries of a line that the formatter wrote: those whose value is
\* an object.
SpanObjects(line) ==
    SelectSeq(EntryValues(line, <<"s","p","a","n">>), LAMBDA value : value.t = "obj")

\* The name member of a span object.
NameIn(object) ==
    object.v[CHOOSE i \in DOMAIN object.v : object.v[i][1] = <<"n","a","m","e">>][2]

\* Whether the formatter writes the span id of the OtelData of a span.
WritesSpanId(span) ==
    /\ formatter.opentelemetry
    /\ formatter.kind = "EventFormatter" => formatter.project_id.some
    /\ span.otel.present
    /\ span.otel.builder.span_id.some

\* C18 as stated: the span of an event with an explicit parent is that
\* parent, whatever span is entered; the span entry of the line is the
\* object of that span.
C18_explicit_parent_as_stated ==
    (result = "ok" /\ last_event.parent # 0) =>
        /\ spans[last_event.parent].exists
        /\ Len(SpanObjects(buf)) = 1
        /\ NameIn(SpanObjects(buf)[1]) = JsonString(spans[last_event.parent].name)

\* C18: the span of an event is its explicit parent when the registry knows
\* that span, also while another span is entered, otherwise the innermost
\* entered span, otherwise none; the line has one span object, that of the
\* resolved span, and its spanId entry is the span id of the same span; an
\* event without a resolved span has neither.
C18_one_resolved_span ==
    result = "ok" =>
        \E resolved \in {IF last_event.parent # 0 /\ spans[last_event.parent].exists
                             THEN last_event.parent
                         ELSE IF stack # <<>> THEN stack[Len(stack)]
                         ELSE 0} :
            IF resolved = 0
                THEN SpanObjects(buf) = <<>> /\ ~HasKey(buf, SpanIdKey)
                ELSE /\ Len(SpanObjects(buf)) = 1
                     /\ NameIn(SpanObjects(buf)[1]) = JsonString(spans[resolved].name)
                     /\ \A i \in DOMAIN spans[resolved].attrs :
                            Holds(SpanObjects(buf)[1], spans[resolved].attrs[i][1],
                                  JsonOf(spans[resolved].attrs[i][2]))
                     /\ IF WritesSpanId(spans[resolved])
                            THEN EntryValues(buf, SpanIdKey)
                                     = <<JsonString(to_hex(
                                           spans[resolved].otel.builder.span_id.v, 16))>>
                            ELSE ~HasKey(buf, SpanIdKey)

\* An event with the outer span as its explicit parent while the inner span
\* is entered.
C18_parent_over_entered ==
    /\ result = "ok"
    /\ formatter.opentelemetry
    /\ formatter.project_id.some
    /\ stack = <<1, 2>>
    /\ last_event.parent = 1
    /\ spans[1].name = <<"r","o","o","t">>
    /\ spans[2].name = <<"i","n","n","e","r">>
    /\ NameIn(SpanObjects(buf)[1]) = JsonString(<<"r","o","o","t">>)
    /\ EntryValues(buf, SpanIdKey) = <<JsonString(<<"0","0","0","0","0","0","0","0","0","0","0","0","0","0","0","1">>)>>

\* The path from the root of the span tree to a span, by the parent links
\* of the registry.
RECURSIVE PathTo(_)
PathTo(id) == IF id = 0 THEN <<>> ELSE Append(PathTo(spans[id].parent), id)

\* The object of a span on its own: its recorded fields, then its name.
OwnObject(id) ==
    JsonObject([i \in DOMAIN spans[id].attrs |->
                   <<spans[id].attrs[i][1], JsonOf(spans[id].attrs[i][2])>>]
               \o << <<<<"n","a","m","e">>, JsonString(spans[id].name)>> >>)

FullChain == formatter.kind = "StackdriverEventFormatter"

\* C19 as stated: in full-chain mode the spans array of an event with a
\* current span lists the spans on the path from the root to the current
\* span, once each and from the root down, each as its own object.
C19_spans_root_to_current ==
    (result = "ok" /\ FullChain /\ CurrentSpan # 0) =>
        EntryValues(buf, <<"s","p","a","n","s">>)
            = <<JsonArray([i \in DOMAIN PathTo(CurrentSpan) |->
                              OwnObject(PathTo(CurrentSpan)[i])])>>

\* An event whose explicit parent is the outer of two entered spans: the
\* array lists both entered spans, the span entry is the outer one.
C19_array_of_entered_chain ==
    /\ result = "ok"
    /\ FullChain
    /\ stack = <<1, 2>>
    /\ last_event.parent = 1
    /\ SpanObjects(buf) = <<OwnObject(1)>>
    /\ EntryValues(buf, <<"s","p","a","n","s">>) = <<JsonArray(<<OwnObject(1), OwnObject(2)>>)>>

\* C20 as stated: in full-chain mode the spans array of an event with a
\* current span, explicit parent or entered, is not empty and its last
\* element is the object written under span.
C20_last_of_spans_is_span ==
    (result = "ok" /\ FullChain /\ CurrentSpan # 0) =>
        /\ Len(EntryValues(buf, <<"s","p","a","n","s">>)) = 1
        /\ EntryValues(buf, <<"s","p","a","n","s">>)[1].v # <<>>
        /\ EntryValues(buf, <<"s","p","a","n","s">>)[1].v[Len(EntryValues(buf, <<"s","p","a","n","s">>)[1].v)]
               = SpanObjects(buf)[1]

\* An event with an explicit parent while no span is entered: a span entry
\* and an empty array.
C20_empty_array_with_span ==
    /\ result = "ok"
    /\ FullChain
    /\ stack = <<>>
    /\ last_event.parent = 1
    /\ spans[1].exists
    /\ SpanObjects(buf) = <<OwnObject(1)>>
    /\ EntryValues(buf, <<"s","p","a","n","s">>) = <<JsonArray(<<>>)>>

SampledKey == <<"l","o","g","g","i","n","g",".","g","o","o","g","l","e","a","p","i","s",".","c","o","m","/","t","r","a","c","e","_","s","a","m","p","l","e","d">>

\* The OtelData of the current span of the last event, when it has one.
Attachment == spans[CurrentSpan].otel
Attached == CurrentSpan # 0 /\ spans[CurrentSpan].otel.present

\* C21: for a layer with a project id, the trace entry and the sampled
\* entry of an event are those of the active span of the parent context of
\* its current span's OtelData, whatever trace id the builder holds;
\* without an active span the trace entry names the builder's trace id, if
\* it has one, and there is no sampled entry.
C21_trace_id_selection ==
    (result = "ok" /\ Attached /\ formatter.project_id.some) =>
        IF Attachment.parent_cx.has_active_span
            THEN /\ EntryValues(buf, TraceKey)
                        = <<JsonString(<<"p","r","o","j","e","c","t","s","/","m","y","_","p","r","o","j","e","c","t","_","1","2","3","/","t","r","a","c","e","s","/">>
                              \o TraceId_to_string(Attachment.parent_cx.trace_id))>>
                 /\ HasKey(buf, SampledKey) <=> Attachment.parent_cx.is_sampled
            ELSE /\ EntryValues(buf, TraceKey)
                        = IF Attachment.builder.trace_id.some
                              THEN <<JsonString(<<"p","r","o","j","e","c","t","s","/","m","y","_","p","r","o","j","e","c","t","_","1","2","3","/","t","r","a","c","e","s","/">>
                                        \o TraceId_to_string(Attachment.builder.trace_id.v))>>
                              ELSE <<>>
                 /\ ~HasKey(buf, SampledKey)

\* An event in a span whose builder holds trace id 11 while its parent
\* context has the active span of trace 10: the line names trace 10.
C21_context_over_builder ==
    /\ result = "ok"
    /\ Attached
    /\ Attachment.builder.trace_id = Some(11)
    /\ Attachment.parent_cx.has_active_span
    /\ EntryValues(buf, TraceKey)
           = <<JsonString(<<"p","r","o","j","e","c","t","s","/","m","y","_","p","r","o","j","e","c","t","_","1","2","3","/","t","r","a","c","e","s","/","0","0","0","0","0","0","0","0","0","0","0","0","0","0","0","0","0","0","0","0","0","0","0","0","0","0","0","0","0","0","0","a">>)>>
    /\ HasKey(buf, SampledKey)

\* C22: the sampled entry of a line is the boolean true, once, and a line
\* has it only when the parent context of the current span's OtelData has
\* an active span that is sampled.
C22_sampled_only_true ==
    (result = "ok" /\ HasKey(buf, SampledKey)) =>
        /\ EntryValues(buf, SampledKey) = <<JsonBool(TRUE)>>
        /\ Attached
        /\ Attachment.parent_cx.has_active_span
        /\ Attachment.parent_cx.is_sampled

\* A line with the sampled entry for an event whose own field of that name
\* is false.
C22_sampled_line ==
    /\ result = "ok"
    /\ last_event.fields = CloudTraceFieldLists[2]
    /\ Attached
    /\ Attachment.parent_cx = SampledContext
    /\ EntryValues(buf, SampledKey) = <<JsonBool(TRUE)>>

\* C23 as stated: built with the trace integration, a line has the spanId
\* entry whenever the OtelData of the current span has a span id, with or
\* without a project id.
C23_span_id_without_project_id ==
    (result = "ok" /\ Attached /\ Attachment.builder.span_id.some) =>
        EntryValues(buf, SpanIdKey)
            = <<JsonString(SpanId_to_string(Attachment.builder.span_id.v))>>

\* An event of the EventFormatter without cloud trace configuration in a
\* span whose OtelData has a span id: a line without the spanId entry.
C23_no_span_id_entry ==
    /\ result = "ok"
    /\ formatter.kind = "EventFormatter"
    /\ ~formatter.project_id.some
    /\ Attached
    /\ Attachment.builder.span_id.some
    /\ ~HasKey(buf, SpanIdKey)

\* A line in a span whose parent context is not sampled, for an event whose
\* own field of the name of the sampled entry is false: no sampled entry,
\* the field under its camel-cased key.
C22_unsampled_line ==
    /\ result = "ok"
    /\ last_event.fields = CloudTraceFieldLists[2]
    /\ Attached
    /\ Attachment.parent_cx = UnsampledContext
    /\ ~HasKey(buf, SampledKey)
    /\ HasEntry(buf, <<"l","o","g","g","i","n","g","G","o","o","g","l","e","a","p","i","s","C","o","m","T","r","a","c","e","S","a","m","p","l","e","d">>, JsonBool(FALSE))

\* The structured severity of the last event.
Structured == last_event.fields[1][2].arg

\* The severity the rule of C24 names for a JSON value.
SingleKeyRule(json) ==
    CASE json.t = "str" -> LogSeverity_from_str(json.v)
      [] json.t = "obj" /\ Len(json.v) = 1 -> LogSeverity_from_str(json.v[1][1])
      [] OTHER -> "Default"

\* C24 as stated: a structured severity that is a string is parsed as text,
\* an object with exactly one key is parsed from that key, and every other
\* value (number, boolean, null, array, empty object, object with two or
\* more keys) gives Default.
C24_single_key_object_only ==
    result = "ok" =>
        LogSeverity_from_value(Structured, formatter.valuable) = SingleKeyRule(Structured)

\* An event whose severity is the object {"alert":1,"zeta":2}: the severity
\* is Alert, parsed from the first of the two keys.
C24_first_of_two_keys ==
    /\ result = "ok"
    /\ Structured = StructuredSeverities[12]
    /\ Len(Structured.v) = 2
    /\ LogSeverity_from_value(Structured, formatter.valuable) = "Alert"
    /\ HasEntry(buf, <<"s","e","v","e","r","i","t","y">>, JsonString(<<"A","L","E","R","T">>))

\* The keys of the entries of a line, in the order of the line.
EntryKeys(line) ==
    LET entries == SelectSeq(line, LAMBDA token : token.tok = "entry")
    IN  [i \in DOMAIN entries |-> entries[i].k]

\* The place of a key in the order of C25; every other key is an event
\* field's.
OrderClass(key) ==
    CASE key = <<"t","i","m","e">> -> 1
      [] key = <<"t","a","r","g","e","t">> -> 2
      [] key = SourceLocationKey -> 3
      [] key = <<"s","p","a","n">> -> 4
      [] key = <<"s","p","a","n","s">> -> 5
      [] key \in {<<"t","r","a","c","e","I","d">>, SpanIdKey, TraceKey, SampledKey} -> 6
      [] key = <<"s","e","v","e","r","i","t","y">> -> 7
      [] key = <<"h","t","t","p","R","e","q","u","e","s","t">> -> 9
      [] key = LabelsKey -> 10
      [] OTHER -> 8

\* The camel-cased keys of the fields of an event that are written at the
\* top level.
TopLevelKeys(fields) ==
    {to_camel_case(key) :
        key \in {k \in RawKeys(fields) :
                    /\ k # <<"s","e","v","e","r","i","t","y">>
                    /\ ~starts_with(k, <<"h","t","t","p","_","r","e","q","u","e","s","t",".">>)
                    /\ ~starts_with(k, <<"l","a","b","e","l","s",".">>)}}

OrderOfKeys(keys, fields) ==
    /\ Len(keys) >= 3
    /\ keys[1] = <<"t","i","m","e">>
    /\ keys[2] = <<"t","a","r","g","e","t">>
    /\ \A i, j \in DOMAIN keys : i < j => OrderClass(keys[i]) <= OrderClass(keys[j])
    /\ \A i, j \in DOMAIN keys :
           (i < j /\ OrderClass(keys[i]) \notin {6, 8}) =>
               OrderClass(keys[i]) < OrderClass(keys[j])
    /\ \E i \in DOMAIN keys : keys[i] = <<"s","e","v","e","r","i","t","y">>
    /\ {keys[i] : i \in {j \in DOMAIN keys : OrderClass(keys[j]) = 8}} = TopLevelKeys(fields)
    /\ (\E i \in DOMAIN keys : keys[i] = <<"h","t","t","p","R","e","q","u","e","s","t">>)
           <=> \E k \in RawKeys(fields) : starts_with(k, <<"h","t","t","p","_","r","e","q","u","e","s","t",".">>)
    /\ (\E i \in DOMAIN keys : keys[i] = LabelsKey)
           <=> \E k \in RawKeys(fields) : starts_with(k, <<"l","a","b","e","l","s",".">>)

ObjectBuffers == {1, 2, 10}
MembersOf(i) ==
    CASE i = 1 -> << <<<<"f","o","o">>, JsonString(<<"b","a","r">>)>> >>
      [] i = 2 -> <<>>
      [] i = 10 -> << <<<<"n","a","m","e">>, JsonString(<<"m","i","n","e">>)>> >>

\* The buffer of the current span is the one at the position in Buffers.
CurrentBufferIs(i) == CurrentSpan # 0 /\ spans[CurrentSpan].formatted = Buffers[i]

\* C26: a format call for an event whose current span has no field buffer,
\* or one that is not the text of a JSON object, panics: it ends neither as
\* a formatted line nor as a formatting error; and a call that ends as a
\* line has written the span with all the members of its buffer and its
\* name.
C26_bad_buffer_panics ==
    /\ \A i \in DOMAIN Buffers \ ObjectBuffers :
           (result # "none" /\ CurrentBufferIs(i)) =>
               /\ result = "panic"
               /\ ~Complete(buf)
               /\ ~HasKey(buf, <<"s","p","a","n">>)
    /\ result # "err"
    /\ (result = "ok" /\ CurrentSpan # 0) =>
           \E i \in ObjectBuffers :
               /\ CurrentBufferIs(i)
               /\ EntryValues(buf, <<"s","p","a","n">>)
                      = <<JsonObject(MembersOf(i)
                             \o << <<<<"n","a","m","e">>, JsonString(spans[CurrentSpan].name)>> >>)>>

\* An event in a span whose buffer holds two objects in a row: the call
\* panics inside the span entry.
C26_panic_on_two_objects ==
    /\ result = "panic"
    /\ CurrentBufferIs(4)
    /\ buf # <<>>
    /\ buf[Len(buf)] = Partial(<<"s","p","a","n">>)

\* C27: a format call changes neither the spans of the registry (name,
\* parent, extension data, field buffer) nor the entered spans nor the
\* configuration of the formatter, and what it writes is determined by the
\* event, the registry, the clock and the configuration alone, not by the
\* events formatted before.
C27_format_leaves_registry ==
    [][(result = "none" /\ result' # "none") =>
           /\ spans' = spans
           /\ stack' = stack
           /\ formatter' = formatter
           /\ make_writer' = make_writer
           /\ \E line \in {FormatEvent_format_event(formatter', spans', stack',
                                                    last_event', clock')} :
                  buf' = buf \o line.out /\ result' = line.status]_vars

\* A formatted event in the inner of two entered spans, whose line shows
\* the span: the registry still holds both spans with their buffers.
C27_registry_after_format ==
    /\ result = "ok"
    /\ stack = <<1, 2>>
    /\ last_event.parent = 0
    /\ HasKey(buf, <<"s","p","a","n">>)
    /\ spans[1].formatted.present
    /\ spans[2].formatted.present

\* The span objects of a line: the span entry and the elements of spans.
AllSpanObjects(line) ==
    SpanObjects(line)
        \o (IF HasKey(line, <<"s","p","a","n","s">>) THEN EntryValues(line, <<"s","p","a","n","s">>)[1].v ELSE <<>>)

NameLast(object) ==
    /\ object.v # <<>>
    /\ object.v[Len(object.v)][1] = <<"n","a","m","e">>

DistinctKeys(object) ==
    \A i, j \in DOMAIN object.v : i # j => object.v[i][1] # object.v[j][1]

\* C28 as stated: in every span object of a line the name entry with the
\* span's own name is the last entry and no two entries have the same key,
\* also for a span with a field called name.
C28_name_last_keys_distinct ==
    result = "ok" =>
        \A k \in DOMAIN AllSpanObjects(buf) :
            NameLast(AllSpanObjects(buf)[k]) /\ DistinctKeys(AllSpanObjects(buf)[k])

\* An event in the span root whose buffer has the field name = "mine": the
\* span object has two entries called name.
C28_two_name_entries ==
    /\ result = "ok"
    /\ CurrentBufferIs(10)
    /\ CurrentSpan = 1
    /\ EntryValues(buf, <<"s","p","a","n">>)
           = <<JsonObject(<< <<<<"n","a","m","e">>, JsonString(<<"m","i","n","e">>)>>,
                             <<<<"n","a","m","e">>, JsonString(<<"r","o","o","t">>)>> >>)>>

\* C29 as stated: the extraction of the trace id of the span chain never
\* aborts the format call: for the text of every span of the chain that
\* declares trace_id, record_str returns with some string, and the call
\* does not panic.
C29_record_str_never_aborts ==
    (result # "none" /\ formatter.kind = "EventFormatter") =>
        /\ result # "panic"
        /\ \A id \in Declaring :
               TraceIdVisitor_record_str(spans[id].formatted.text).status = "ok"

\* An event in the span whose trace_id is the number 7: the text after the
\* first ':' is 7} and the call panics after the span entry.
C29_panic_on_short_segment ==
    /\ result = "panic"
    /\ formatter.kind = "EventFormatter"
    /\ CurrentSpan # 0
    /\ spans[CurrentSpan].formatted.text = <<"{">> \o <<"\"">> \o <<"t","r","a","c","e","_","i","d">> \o <<"\"">> \o <<":","7","}">>
    /\ split(spans[CurrentSpan].formatted.text, <<>>)[2] = <<"7","}">>
    /\ HasKey(buf, <<"s","p","a","n">>)
    /\ ~Complete(buf)

\* The position in the pool of a field of an event of SpecOrder.
PoolPosition(field) ==
    CHOOSE p \in DOMAIN OrderPool :
        /\ OrderPool[p][1] = field[1]
        /\ OrderPool[p][2].ty = field[2].ty
        /\ OrderPool[p][2].arg = field[2].arg

PoolPositions(fields) == {PoolPosition(fields[i]) : i \in DOMAIN fields}

\* The orders in which a call site can name the same fields.
SameFields(fields) ==
    {at \in OrderSeqs : {at[i] : i \in DOMAIN at} = PoolPositions(fields)}

DistinctNames(fields) ==
    \A i, j \in DOMAIN fields : i # j => fields[i][1] # fields[j][1]

\* The line of the last event is the line of each event that names the same
\* fields in another order.
SameLineInEveryOrder ==
    \A at \in SameFields(last_event.fields) :
        FormatEvent_format_event(formatter, spans, stack,
                                 [last_event EXCEPT !.fields = OrderFields(at)],
                                 clock).out = buf

\* C30 as stated: the line of an event is the line of every event with the
\* same level, target, source location and parent and the same fields in
\* another order, formatted under the same registry, entered spans,
\* configuration and clock reading.
C30_line_of_field_set_as_stated ==
    result = "ok" => SameLineInEveryOrder

\* C30, amended: the same for the events whose field names are pairwise
\* distinct; of two fields of one name the one the call site names last is
\* written.
C30_line_of_distinct_fields ==
    /\ (result = "ok" /\ DistinctNames(last_event.fields)) => SameLineInEveryOrder
    /\ (result = "ok" /\ Len(last_event.fields) = 2 /\ ~DistinctNames(last_event.fields)) =>
           HasEntry(buf, to_camel_case(last_event.fields[2][1]),
                    JsonOf(last_event.fields[2][2]))

\* An event that names zeta before Alpha: the line has them in the order of
\* the map, as the line of the event that names Alpha first.
C30_fields_in_map_order ==
    /\ result = "ok"
    /\ Len(last_event.fields) = 2
    /\ last_event.fields[1][1] = <<"z","e","t","a">>
    /\ last_event.fields[2][1] = <<"A","l","p","h","a">>
    /\ stack = <<>>
    /\ formatter = StackdriverEventFormatter_default(TRUE, FALSE)
    /\ EntryKeys(buf) = <<<<"t","i","m","e">>, <<"t","a","r","g","e","t">>, <<"s","e","v","e","r","i","t","y">>, <<"a","l","p","h","a">>, <<"z","e","t","a">>>>
====
